---- MODULE Spec2Model ----
(***************************************************************************)
(* A model of the squirrel-rs bytecode interpreter: the value model, the   *)
(* stack with its sliding frame, the call-info sequence, the heap of       *)
(* tables and arrays, the embedder API (push, push_roottable,              *)
(* add_native_func, call, execute) and the dispatch loop of execute().     *)
(***************************************************************************)
EXTENDS Integers, Sequences, FiniteSets, TLC

VARIABLES protos, stack, frame, callstack, heap, op_count, pc, result, last, entry, ghost,
          ld

vars == <<protos, stack, frame, callstack, heap, op_count, pc, result, last, entry, ghost,
          ld>>

\* the variables of the executor; ld is the state of the loader
vm_vars == <<protos, stack, frame, callstack, heap, op_count, pc, result, last, entry,
             ghost>>

\* the loader at rest: no stream is being read
LdIdle == [input |-> <<>>, made |-> [kind |-> "none"], state |-> "idle", pos |-> 0,
           steps |-> <<>>, locals |-> <<>>, result |-> [kind |-> "none"]]

(***************************************************************************)
(* Bounds of the model.                                                    *)
(***************************************************************************)
\* the embedder pushes at most this many values
MaxPush == 3
\* call() is tried with 0 .. MaxParams parameters
MaxParams == 2
\* at most this many instructions are executed over a run
MaxSteps == 40
\* the deepest self tail-recursion a program of the family asks for
MaxDepth == 3
\* call() is made while fewer than this many call-infos are on the callstack
MaxCalls == 1
\* instruction records of a prototype in a bytecode stream
MaxInstructions == 2
\* the bits of the u32 field arg1 the model keeps (the checker's integers have
\* 32 bits, so a u32 with its top bit set and its widening to i64 need a
\* narrower field): arg1 ranges over 0 .. 2^Arg1Bits - 1
Arg1Bits == 16

(***************************************************************************)
(* Program constants.                                                      *)
(***************************************************************************)
\* vec![...; 1024 * 100] in Stack::new
Capacity == 102400
\* arg0 == 0xFF: "no target" of CALL and RETURN
NoTarget == 255
\* NewObjectType, as in the reference implementation
NOT_TABLE == 0
NOT_ARRAY == 1
\* AppendArrayType, as in the reference implementation
AAT_STACK == 0
AAT_LITERAL == 1
AAT_INT == 2
AAT_BOOL == 4

(***************************************************************************)
(* Object: the tagged value.  Every variant is a record of the same shape  *)
(* [t, i, s]: t the variant, i the integer payload (the integer, the bool  *)
(* as 0/1, the heap reference of a table or array, the prototype index of  *)
(* a closure or funcproto, the nargs of a native closure), s the text      *)
(* payload (the string, the name of a native closure).                     *)
(***************************************************************************)
Null == [t |-> "Null", i |-> 0, s |-> ""]
Integer(n) == [t |-> "Integer", i |-> n, s |-> ""]
Bool(b) == [t |-> "Bool", i |-> IF b THEN 1 ELSE 0, s |-> ""]
String(x) == [t |-> "String", i |-> 0, s |-> x]
FuncProto(p) == [t |-> "FuncProto", i |-> p, s |-> ""]
Closure(p) == [t |-> "Closure", i |-> p, s |-> ""]
NativeClosure(name, nargs) == [t |-> "NativeClosure", i |-> nargs, s |-> name]
Table(r) == [t |-> "Table", i |-> r, s |-> ""]
Array(r) == [t |-> "Array", i |-> r, s |-> ""]

\* impl Hash for Object: defined on Integer, Bool and String only
\* variant: every variant has a hash
Hashable_any(o) == TRUE

Hashable(o) == o.t \in {"Integer", "Bool", "String"}

\* impl PartialEq for Object
\* variant: equality on the variant tag alone
ObjectEq_tag(a, b) ==
    /\ a.t = b.t
    /\ a.t \in {"Integer", "String", "Bool"}

ObjectEq(a, b) ==
    /\ a.t = b.t
    /\ a.t \in {"Integer", "String", "Bool"}
    /\ a.i = b.i
    /\ a.s = b.s

(***************************************************************************)
(* Instruction: arg1 is the u32 field, arg0, arg2, arg3 the byte fields.   *)
(***************************************************************************)
Ins(op, a0, a1, a2, a3) == [op |-> op, arg0 |-> a0, arg1 |-> a1, arg2 |-> a2, arg3 |-> a3]

\* opcodes of the enumeration that execute() has no arm for
Unimplemented == {"LINE", "SET", "GET", "LOADBOOL"}

\* opcode bytes outside the enumeration (0x3D, 0xFF)
UnknownOpcodes == {"0x3D", "0xFF"}

\* `instr.arg1 as types::Integer`: a u32 widened to i64
AsInteger(u) == u

\* the field arg1 read as a two's-complement number
Signed(u) == IF u >= 2 ^ (Arg1Bits - 1) THEN u - 2 ^ Arg1Bits ELSE u

\* the arg1 field that encodes the signed number n
Arg1Of(n) == IF n < 0 THEN 2 ^ Arg1Bits + n ELSE n

\* enum CompOp, the comparison selector in arg3 of JCMP
CompOp == [G |-> 0, GE |-> 2, L |-> 3, LE |-> 4, _3W |-> 5]

(***************************************************************************)
(* Stack: the value buffer is a function from slot index to Object that    *)
(* holds the non-Null slots only (Stack::new fills the buffer with Null).  *)
(***************************************************************************)
EmptyStack == [j \in {} |-> Null]

InRange(idx) == idx >= 0 /\ idx < Capacity

SlotGet(st, idx) == IF idx \in DOMAIN st THEN st[idx] ELSE Null

SlotSet(st, idx, v) ==
    IF v = Null
    THEN [j \in (DOMAIN st) \ {idx} |-> st[j]]
    ELSE [j \in (DOMAIN st) \cup {idx} |-> IF j = idx THEN v ELSE st[j]]

\* Stack::value / Stack::value_mut: the slot of a frame-relative position
Slot(fr, pos) == fr.base + pos

value(st, fr, pos) == SlotGet(st, Slot(fr, pos))

\* Stack::up: the slot relative to top
UpSlot(fr, pos) == fr.top + pos

\* Stack::swap
swap(st, fr, pos1, pos2) ==
    LET a == SlotGet(st, Slot(fr, pos1))
        b == SlotGet(st, Slot(fr, pos2))
    IN SlotSet(SlotSet(st, Slot(fr, pos1), b), Slot(fr, pos2), a)

\* Stack::pop
pop(fr, num) == [fr EXCEPT !.top = fr.top - num]

(***************************************************************************)
(* Heap objects.  A table's map is a set of entries [k, v] with pairwise   *)
(* unequal keys; an array is a sequence.  heap[r] is the object behind the *)
(* shared reference r; heap[RootRef] is the root table.                    *)
(***************************************************************************)
RootRef == 1

TableObj(m) == [kind |-> "Table", map |-> m, array |-> <<>>]
ArrayObj(a) == [kind |-> "Array", map |-> {}, array |-> a]

MapHas(m, key) == \E e \in m : ObjectEq(e.k, key)

MapGet(m, key) == (CHOOSE e \in m : ObjectEq(e.k, key)).v

\* HashMap::insert
MapInsert(m, key, v) == {e \in m : ~ObjectEq(e.k, key)} \cup {[k |-> key, v |-> v]}

\* results of a fallible operation: a value, a RuntimeError, or a panic
Ok(v) == [kind |-> "ok", v |-> v]
Err(msg) == [kind |-> "err", v |-> String(msg)]
Panic == [kind |-> "panic", v |-> Null]
None == [kind |-> "none", v |-> Null]

\* fn get(obj, key)
\* variant: a position outside the array reads as Null
get_null(hp, obj, key) ==
    CASE obj.t = "Table" ->
           IF ~Hashable(key) THEN Panic
           ELSE IF MapHas(hp[obj.i].map, key) THEN Ok(MapGet(hp[obj.i].map, key))
           ELSE Err("key not found in table")
      [] obj.t = "Array" ->
           CASE key.t = "Integer" ->
                  IF key.i >= 0 /\ key.i < Len(hp[obj.i].array)
                  THEN Ok(hp[obj.i].array[key.i + 1])
                  ELSE Ok(Null)
             [] key.t = "String" ->
                  IF key.s = "len" THEN Ok(Integer(Len(hp[obj.i].array)))
                  ELSE Err("array delegate failed")
             [] OTHER -> Err("unsupported array key")
      [] OTHER -> Err("key not found in table")

get(hp, obj, key) ==
    CASE obj.t = "Table" ->
           IF ~Hashable(key) THEN Panic
           ELSE IF MapHas(hp[obj.i].map, key) THEN Ok(MapGet(hp[obj.i].map, key))
           ELSE Err("key not found in table")
      [] obj.t = "Array" ->
           CASE key.t = "Integer" ->
                  IF key.i >= 0 /\ key.i < Len(hp[obj.i].array)
                  THEN Ok(hp[obj.i].array[key.i + 1])
                  ELSE Err("array access error")
             [] key.t = "String" ->
                  IF key.s = "len" THEN Ok(Integer(Len(hp[obj.i].array)))
                  ELSE Err("array delegate failed")
             [] OTHER -> Err("unsupported array key")
      [] OTHER -> Err("key not found in table")

\* the outcomes of get(obj, key) a build can produce: HashMap::get on a key that
\* has no hash panics in Hash::hash, unless the map is empty and the library
\* answers None before it hashes
GetOutcomes(hp, obj, key) ==
    IF obj.t = "Table" /\ ~Hashable(key) /\ hp[obj.i].map = {}
    THEN {Panic, Err("key not found in table")}
    ELSE {get(hp, obj, key)}

(***************************************************************************)
(* Function prototypes.  protos is the table of the prototypes of the      *)
(* loaded file, protos[1] the top-level one; `functions` holds indices     *)
(* into that table.                                                        *)
(***************************************************************************)
Proto(name, stacksize, literals, instructions, functions) ==
    [name |-> name, stacksize |-> stacksize, literals |-> literals,
     instructions |-> instructions, functions |-> functions]

TopProto == 1

(***************************************************************************)
(* impl Display for Object, used by the string arm of the arithmetic       *)
(* opcodes.                                                                *)
(***************************************************************************)
Digit(d) ==
    CASE d = 0 -> "0" [] d = 1 -> "1" [] d = 2 -> "2" [] d = 3 -> "3" [] d = 4 -> "4"
      [] d = 5 -> "5" [] d = 6 -> "6" [] d = 7 -> "7" [] d = 8 -> "8" [] OTHER -> "9"

RECURSIVE NatToStr(_)
NatToStr(n) == IF n < 10 THEN Digit(n) ELSE NatToStr(n \div 10) \o Digit(n % 10)

IntToStr(n) == IF n < 0 THEN "-" \o NatToStr(-n) ELSE NatToStr(n)

Display(pt, o) ==
    CASE o.t = "Integer" -> IntToStr(o.i)
      [] o.t = "Bool" -> IF o.i = 1 THEN "true" ELSE "false"
      [] o.t = "String" -> o.s
      [] o.t = "FuncProto" -> "func_proto(" \o pt[o.i].name \o ")"
      [] o.t = "Closure" -> "closure(func_proto(" \o pt[o.i].name \o "))"
      [] o.t = "NativeClosure" -> "nativeclosure()"
      [] o.t = "Table" -> "table"
      [] o.t = "Array" -> "array"
      [] OTHER -> "null"

Abs(n) == IF n < 0 THEN -n ELSE n

\* i64 `/`: truncates toward zero
TruncDiv(a, b) ==
    IF (a < 0) = (b < 0) THEN Abs(a) \div Abs(b) ELSE -(Abs(a) \div Abs(b))

\* i64 `%`: the remainder has the sign of the dividend
TruncRem(a, b) == a - b * TruncDiv(a, b)

\* the Integer/Integer arm of arith!
\* variant: SUB with its operands exchanged
ArithInt_swapped(op, int1, int2) ==
    CASE op = "ADD" -> Ok(Integer(int1 + int2))
      [] op = "SUB" -> Ok(Integer(int2 - int1))
      [] op = "MUL" -> Ok(Integer(int1 * int2))
      [] op = "DIV" -> IF int2 = 0 THEN Panic ELSE Ok(Integer(TruncDiv(int1, int2)))
      [] OTHER -> IF int2 = 0 THEN Panic ELSE Ok(Integer(TruncRem(int1, int2)))

\* variant: a zero divisor is reported as an error
ArithInt_checked(op, int1, int2) ==
    CASE op = "ADD" -> Ok(Integer(int1 + int2))
      [] op = "SUB" -> Ok(Integer(int1 - int2))
      [] op = "MUL" -> Ok(Integer(int1 * int2))
      [] op = "DIV" -> IF int2 = 0 THEN Err("division by zero")
                       ELSE Ok(Integer(TruncDiv(int1, int2)))
      [] OTHER -> IF int2 = 0 THEN Err("modulo by zero")
                  ELSE Ok(Integer(TruncRem(int1, int2)))

ArithInt(op, int1, int2) ==
    CASE op = "ADD" -> Ok(Integer(int1 + int2))
      [] op = "SUB" -> Ok(Integer(int1 - int2))
      [] op = "MUL" -> Ok(Integer(int1 * int2))
      [] op = "DIV" -> IF int2 = 0 THEN Panic ELSE Ok(Integer(TruncDiv(int1, int2)))
      [] OTHER -> IF int2 = 0 THEN Panic ELSE Ok(Integer(TruncRem(int1, int2)))

\* macro arith!: op1 is R[arg2], op2 is R[arg1]
arith(pt, op, op1, op2) ==
    CASE op1.t = "Integer" /\ op2.t = "Integer" -> ArithInt(op, op1.i, op2.i)
      [] op1.t = "String" -> Ok(String(op1.s \o Display(pt, op2)))
      [] OTHER -> Err("unhandled operands")

(***************************************************************************)
(* Call info and the API results.                                          *)
(***************************************************************************)
Some(x) == [some |-> TRUE, v |-> x]
NoneTarget == [some |-> FALSE, v |-> 0]

StackFrame(base, top) == [base |-> base, top |-> top]

CallInfo(prevframe, closure, ip, root, target) ==
    [prevframe |-> prevframe, closure |-> closure, ip |-> ip, root |-> root,
     target |-> target]

\* what the last API call (call or execute) returned
ApiResult(api, r) == [api |-> api, kind |-> r.kind, v |-> r.v]

\* nothing was called since the last push
NoResult == ApiResult("none", None)

\* Executor::start_call: the call-info sequence and frame it leaves
\* variant: the call-info pushed is marked as a root
start_call_root(cs, fr, closure, target, num_params, stackbase) ==
    IF closure.t # "Closure"
    THEN [kind |-> "err", callstack |-> cs, frame |-> fr]
    ELSE [kind |-> "ok",
          callstack |-> Append(cs, CallInfo(fr, closure, 0, TRUE, target)),
          frame |-> StackFrame(stackbase, stackbase + protos[closure.i].stacksize)]

\* variant: the call-info saves the callee's frame in place of the caller's
start_call_newframe(cs, fr, closure, target, num_params, stackbase) ==
    IF closure.t # "Closure"
    THEN [kind |-> "err", callstack |-> cs, frame |-> fr]
    ELSE [kind |-> "ok",
          callstack |-> Append(cs, CallInfo(
                StackFrame(stackbase, stackbase + protos[closure.i].stacksize),
                closure, 0, FALSE, target)),
          frame |-> StackFrame(stackbase, stackbase + protos[closure.i].stacksize)]

\* variant: the callee's frame starts at the caller's base
start_call_samebase(cs, fr, closure, target, num_params, stackbase) ==
    IF closure.t # "Closure"
    THEN [kind |-> "err", callstack |-> cs, frame |-> fr]
    ELSE [kind |-> "ok",
          callstack |-> Append(cs, CallInfo(fr, closure, 0, FALSE, target)),
          frame |-> StackFrame(fr.base, fr.base + protos[closure.i].stacksize)]

\* variant: a native closure is entered like a closure
start_call_native(cs, fr, closure, target, num_params, stackbase) ==
    IF closure.t \notin {"Closure", "NativeClosure"}
    THEN [kind |-> "err", callstack |-> cs, frame |-> fr]
    ELSE [kind |-> "ok",
          callstack |-> Append(cs, CallInfo(fr, closure, 0, FALSE, target)),
          frame |-> StackFrame(stackbase, stackbase)]

start_call(cs, fr, closure, target, num_params, stackbase) ==
    IF closure.t # "Closure"
    THEN [kind |-> "err", callstack |-> cs, frame |-> fr]
    ELSE [kind |-> "ok",
          callstack |-> Append(cs, CallInfo(fr, closure, 0, FALSE, target)),
          frame |-> StackFrame(stackbase, stackbase + protos[closure.i].stacksize)]

(***************************************************************************)
(* Native closures the embedder registers: `print` (examples/executor.rs)  *)
(* dumps the stack, `push` pushes a result value onto the stack.           *)
(***************************************************************************)
NativeNames == {"print", "push"}

native_closure(name) == NativeClosure(name, 1)

\* the stack and frame a native leaves, or a panic
NativeRun(name, st, fr) ==
    IF name = "push"
    THEN IF InRange(fr.top)
         THEN [kind |-> "ok", stack |-> SlotSet(st, fr.top, Integer(99)),
               frame |-> StackFrame(fr.base, fr.top + 1)]
         ELSE [kind |-> "panic", stack |-> st, frame |-> fr]
    ELSE IF fr.top < Capacity
         THEN [kind |-> "ok", stack |-> st, frame |-> fr]
         ELSE [kind |-> "panic", stack |-> st, frame |-> fr]

(***************************************************************************)
(* The programs the embedder may load: the end-to-end scenarios and        *)
(* variations of them.  Registers and ip are 0-based as in the bytecode.   *)
(***************************************************************************)
\* constant return: LOADINT R1, x; RETURN a0, R1
ProgConst(x, a0) ==
    << Proto("main", 2, <<>>,
             << Ins("LOADINT", 1, x, 0, 0), Ins("RETURN", a0, 1, 0, 0) >>, <<>>) >>

\* a function that runs past its last instruction
ProgNoReturn == << Proto("main", 2, <<>>, << Ins("LOADINT", 1, 5, 0, 0) >>, <<>>) >>

\* nested call: main calls `four` with target t at stack offset inc
ProgNested(t, inc, a0, ss) ==
    << Proto("main", 6, <<>>,
             << Ins("CLOSURE", 1, 0, 0, 0), Ins("MOVE", inc, 0, 0, 0),
                Ins("CALL", t, 1, inc, 1), Ins("RETURN", 1, 2, 0, 0) >>, <<2>>),
       Proto("four", ss, <<>>,
             << Ins("LOADINT", 1, 4, 0, 0), Ins("RETURN", a0, 1, 0, 0) >>, <<>>) >>

\* two levels of calls: main calls `mid`, `mid` calls `four`
ProgNested2(t) ==
    << Proto("main", 6, <<>>,
             << Ins("CLOSURE", 1, 0, 0, 0), Ins("MOVE", 3, 0, 0, 0),
                Ins("CALL", 2, 1, 3, 1), Ins("RETURN", 1, 2, 0, 0) >>, <<2>>),
       Proto("mid", 5, <<>>,
             << Ins("CLOSURE", 1, 0, 0, 0), Ins("MOVE", 2, 0, 0, 0),
                Ins("CALL", t, 1, 2, 1), Ins("LOADINT", 4, 1, 0, 0),
                Ins("ADD", 1, 4, 1, 0), Ins("RETURN", 1, 1, 0, 0) >>, <<3>>),
       Proto("four", 2, <<>>,
             << Ins("LOADINT", 1, 4, 0, 0), Ins("RETURN", 1, 1, 0, 0) >>, <<>>) >>

\* the body of `count(this, n, self)`: tail-calls itself with n - 1 until n is zero
CountBody ==
    << Ins("JZ", 1, 6, 0, 0), Ins("LOADINT", 3, 1, 0, 0), Ins("MOVE", 4, 0, 0, 0),
       Ins("SUB", 5, 3, 1, 0), Ins("MOVE", 6, 2, 0, 0), Ins("TAILCALL", 0, 2, 4, 3),
       Ins("RETURN", NoTarget, 0, 0, 0), Ins("LOADINT", 3, 42, 0, 0),
       Ins("RETURN", 1, 3, 0, 0) >>

\* tail call: main calls count(this, n, count)
ProgTail(n) ==
    << Proto("main", 8, <<>>,
             << Ins("CLOSURE", 1, 0, 0, 0), Ins("MOVE", 3, 0, 0, 0),
                Ins("LOADINT", 4, n, 0, 0), Ins("MOVE", 5, 1, 0, 0),
                Ins("CALL", 2, 1, 3, 3), Ins("RETURN", 1, 2, 0, 0) >>, <<2>>),
       Proto("count", 7, <<>>, CountBody, <<>>) >>

\* the root frame tail-calls `nine`, whose stacksize is ss
ProgTailRoot(ss) ==
    << Proto("main", 6, <<>>,
             << Ins("CLOSURE", 1, 0, 0, 0), Ins("MOVE", 3, 0, 0, 0),
                Ins("TAILCALL", 0, 1, 3, 1) >>, <<2>>),
       Proto("nine", ss, <<>>,
             << Ins("LOADINT", 1, 9, 0, 0), Ins("RETURN", 1, 1, 0, 0) >>, <<>>) >>

\* main calls `hop`, which tail-calls `nine`, whose stacksize is ss
ProgTailOther(ss, t) ==
    << Proto("main", 6, <<>>,
             << Ins("CLOSURE", 1, 0, 0, 0), Ins("MOVE", 3, 0, 0, 0),
                Ins("CALL", t, 1, 3, 1), Ins("RETURN", 1, 2, 0, 0) >>, <<2>>),
       Proto("hop", 4, <<>>,
             << Ins("CLOSURE", 1, 0, 0, 0), Ins("MOVE", 2, 0, 0, 0),
                Ins("TAILCALL", 0, 1, 2, 1) >>, <<3>>),
       Proto("nine", ss, <<>>,
             << Ins("LOADINT", 1, 9, 0, 0), Ins("RETURN", 1, 1, 0, 0) >>, <<>>) >>

\* a tail call of a register that holds no closure
ProgTailBad ==
    << Proto("main", 6, <<>>,
             << Ins("LOADINT", 1, 3, 0, 0), Ins("TAILCALL", 0, 1, 3, 1) >>, <<>>) >>

\* the instruction that puts the key of a table program in R2
KeyIns(kind) ==
    CASE kind = "str" -> Ins("LOAD", 2, 0, 0, 0)
      [] kind = "int" -> Ins("LOADINT", 2, 5, 0, 0)
      [] OTHER -> Ins("EQ", 2, 3, 3, 0)

\* the literal equal to that key
KeyLit(kind) ==
    CASE kind = "str" -> String("x")
      [] kind = "int" -> Integer(5)
      [] OTHER -> Bool(TRUE)

\* a second NEWSLOT between the first and the GETK
SecondSlot(second) ==
    CASE second = "same" -> << Ins("LOADINT", 7, 8, 0, 0), Ins("NEWSLOT", NoTarget, 5, 2, 7) >>
      [] second = "other" -> << Ins("LOAD", 6, 1, 0, 0), Ins("LOADINT", 7, 8, 0, 0),
                                Ins("NEWSLOT", NoTarget, 5, 6, 7) >>
      [] OTHER -> << >>

\* table round trip: R1 = table; R1[key] = 7; R4 = R5[literals[getlit]] with R5 = R1
\* (on the root table the GETK goes through R0, the pushed reference)
ProgTable(tbl, kind, second, getlit) ==
    << Proto("main", 8, << KeyLit(kind), String("y") >>,
             << IF tbl = "root" THEN Ins("LOADROOT", 1, 0, 0, 0)
                ELSE Ins("NEWOBJ", 1, 0, 0, NOT_TABLE),
                Ins("LOADINT", 3, 7, 0, 0), KeyIns(kind), Ins("MOVE", 5, 1, 0, 0),
                Ins("NEWSLOT", NoTarget, 1, 2, 3) >>
             \o SecondSlot(second)
             \o << Ins("GETK", 4, getlit, IF tbl = "root" THEN 0 ELSE 5, 0),
                   Ins("RETURN", 1, 4, 0, 0) >>, <<>>) >>

\* NEWSLOT on an array, and NEWOBJ of an unknown type
ProgNewObj(ty) ==
    << Proto("main", 4, <<>>,
             << Ins("NEWOBJ", 1, 0, 0, ty), Ins("LOADINT", 2, 1, 0, 0),
                Ins("NEWSLOT", NoTarget, 1, 2, 2), Ins("RETURN", 1, 1, 0, 0) >>, <<>>) >>

\* call of the native registered under name, found in R0 (the root table)
ProgNative(name, t) ==
    << Proto("main", 6, << String(name) >>,
             << Ins("GETK", 1, 0, 0, 0), Ins("MOVE", 3, 0, 0, 0),
                Ins("CALL", t, 1, 3, 1), Ins("LOADINT", 2, 6, 0, 0),
                Ins("DIV", 2, 2, 2, 0), Ins("RETURN", 1, 2, 0, 0) >>, <<>>) >>

\* a native called from a called function
ProgNativeNested(name) ==
    << Proto("main", 6, <<>>,
             << Ins("CLOSURE", 1, 0, 0, 0), Ins("MOVE", 3, 0, 0, 0),
                Ins("CALL", 2, 1, 3, 1), Ins("RETURN", 1, 2, 0, 0) >>, <<2>>),
       Proto("inner", 5, << String(name) >>,
             << Ins("GETK", 1, 0, 0, 0), Ins("MOVE", 3, 0, 0, 0),
                Ins("CALL", 2, 1, 3, 1), Ins("LOADINT", 1, 3, 0, 0),
                Ins("MOD", 2, 1, 1, 0), Ins("MUL", 2, 1, 1, 0),
                Ins("RETURN", 1, 2, 0, 0) >>, <<>>) >>

\* method lookup and call: R1 = R0[key], R3 = R0, then CALL R1 with base 3.  The
\* key is the literal `name` (PREPCALLK), the register R2 loaded with it
\* (PREPCALL), or R2 left Null (name = "null")
ProgPrep(op, name, t) ==
    << Proto("main", 6, << String(name) >>,
             << Ins("LOADINT", 1, 11, 0, 0), Ins("LOADINT", 3, 13, 0, 0) >>
             \o (IF op = "PREPCALLK" THEN << Ins("PREPCALLK", 1, 0, 0, 3) >>
                 ELSE IF name = "null" THEN << Ins("PREPCALL", 1, 2, 0, 3) >>
                 ELSE << Ins("LOAD", 2, 0, 0, 0), Ins("PREPCALL", 1, 2, 0, 3) >>)
             \o << Ins("CALL", t, 1, 3, 1), Ins("LOADINT", 5, 6, 0, 0),
                   Ins("RETURN", 1, 5, 0, 0) >>, <<>>) >>

\* the literals of the array programs: the keys a GETK reads the array with
ArrayKeys ==
    << String("len"), Integer(0), Integer(1), Integer(2), Integer(-1), String("size") >>

\* array round trip: n APPENDARRAYs on a new array, then R2 = R1[literals[getlit]]
ProgArray(n, getlit) ==
    << Proto("main", 4, ArrayKeys,
             << Ins("NEWOBJ", 1, 0, 0, NOT_ARRAY), Ins("LOADINT", 2, 77, 0, 0) >>
             \o SubSeq(<< Ins("APPENDARRAY", 1, 10, AAT_INT, 0),
                          Ins("APPENDARRAY", 1, 5, AAT_LITERAL, 0) >>, 1, n)
             \o << Ins("GETK", 2, getlit, 1, 0), Ins("RETURN", 1, 2, 0, 0) >>, <<>>) >>

\* APPENDARRAY from the stack and of a bool, of an unhandled type, on a table
ProgAppend(ty, obj) ==
    << Proto("main", 4, << String("len") >>,
             << Ins("NEWOBJ", 1, 0, 0, obj), Ins("APPENDARRAY", 1, 1, ty, 0),
                Ins("GETK", 2, 0, 1, 0), Ins("RETURN", 1, 2, 0, 0) >>, <<>>) >>

\* the instructions that put the condition of a JZ program in R1
CondIns(kind) ==
    CASE kind = "true" -> << Ins("LOADINT", 2, 1, 0, 0), Ins("EQ", 1, 2, 2, 0) >>
      [] kind = "false" -> << Ins("LOADINT", 2, 1, 0, 0), Ins("LOADINT", 3, 2, 0, 0),
                              Ins("EQ", 1, 3, 2, 0) >>
      [] kind = "int0" -> << Ins("LOADINT", 1, 0, 0, 0) >>
      [] kind = "int5" -> << Ins("LOADINT", 1, 5, 0, 0) >>
      [] kind = "str" -> << Ins("LOAD", 1, 0, 0, 0) >>
      [] kind = "empty" -> << Ins("LOAD", 1, 1, 0, 0) >>
      [] kind = "table" -> << Ins("NEWOBJ", 1, 0, 0, NOT_TABLE) >>
      [] kind = "array" -> << Ins("NEWOBJ", 1, 0, 0, NOT_ARRAY) >>
      [] kind = "closure" -> << Ins("CLOSURE", 1, 0, 0, 0) >>
      [] kind = "native" -> << Ins("GETK", 1, 2, 0, 0) >>
      [] OTHER -> << >>

CondKinds ==
    {"true", "false", "int0", "int5", "str", "empty", "table", "array", "closure",
     "native", "null"}

\* conditional: returns 1 when JZ falls through and 0 when it jumps
ProgJz(kind) ==
    << Proto("main", 5, << String("s"), String(""), String("print") >>,
             CondIns(kind)
             \o << Ins("LOADINT", 4, 9, 0, 0), Ins("JZ", 1, 2, 0, 0),
                   Ins("LOADINT", 2, 1, 0, 0), Ins("RETURN", 1, 2, 0, 0),
                   Ins("LOADINT", 2, 0, 0, 0), Ins("RETURN", 1, 2, 0, 0) >>, <<2>>),
       Proto("four", 2, <<>>,
             << Ins("LOADINT", 1, 4, 0, 0), Ins("RETURN", 1, 1, 0, 0) >>, <<>>) >>

\* R1 = a = x - y, R2 = b = z - y, R3 = ADD(a, b), R4 = SUB(R3, b), R5 = MUL(a, b),
\* R6 = MUL(b, a); returns R4
ProgAddSub(x, y, z) ==
    << Proto("main", 10, <<>>,
             << Ins("LOADINT", 7, x, 0, 0), Ins("LOADINT", 8, y, 0, 0),
                Ins("LOADINT", 9, z, 0, 0), Ins("SUB", 1, 8, 7, 0),
                Ins("SUB", 2, 8, 9, 0), Ins("ADD", 3, 2, 1, 0), Ins("SUB", 4, 2, 3, 0),
                Ins("MUL", 5, 2, 1, 0), Ins("MUL", 6, 1, 2, 0),
                Ins("RETURN", 1, 4, 0, 0) >>, <<>>) >>

\* an instruction execute() has no arm for, between a LOADINT and a RETURN
ProgUnhandled(op) ==
    << Proto("main", 4, <<>>,
             << Ins("LOADINT", 1, 1, 0, 0), Ins(op, 1, 2, 3, 4),
                Ins("RETURN", 1, 1, 0, 0) >>, <<>>) >>

Programs ==
    {ProgPrep("PREPCALLK", "print", 2), ProgArray(1, 0), ProgUnhandled("SET"),
     ProgUnhandled("0x3D")}
    \cup {ProgConst(x, a0) : x \in {0, 111}, a0 \in {1, NoTarget}}
    \cup {ProgNoReturn, ProgTailBad}
    \cup {ProgNested(t, inc, a0, ss) : t \in {2, NoTarget}, inc \in {2, 3},
                                       a0 \in {1, NoTarget}, ss \in {2, 4}}
    \cup {ProgNested2(t) : t \in {1, NoTarget}}
    \cup {ProgTail(n) : n \in 0 .. MaxDepth}
    \cup {ProgTailRoot(ss) : ss \in {2, 6, 9}}
    \cup {ProgTailOther(ss, t) : ss \in {2, 4, 9}, t \in {2, NoTarget}}
    \cup {ProgTable(tbl, kind, second, getlit) :
              tbl \in {"new", "root"}, kind \in {"str", "int", "bool"},
              second \in {"none", "same", "other"}, getlit \in {0, 1}}
    \cup {ProgNewObj(ty) : ty \in {NOT_ARRAY, 2}}
    \cup {ProgNative(name, t) : name \in NativeNames, t \in {2, NoTarget}}
    \cup {ProgNativeNested(name) : name \in NativeNames}

\* the programs of the second specification: lookups, arrays, conditions,
\* arithmetic, unhandled instructions, and one of each of the families above
ProgramsB ==
    {ProgPrep("PREPCALLK", name, t) : name \in NativeNames, t \in {2, 4, NoTarget}}
    \cup {ProgPrep("PREPCALL", name, t) : name \in NativeNames, t \in {2, 4, NoTarget}}
    \cup {ProgPrep("PREPCALLK", "nope", 2), ProgPrep("PREPCALL", "nope", 2),
          ProgPrep("PREPCALL", "null", 2)}
    \cup {ProgArray(n, getlit) : n \in 0 .. 2, getlit \in 0 .. 5}
    \cup {ProgAppend(AAT_STACK, NOT_ARRAY), ProgAppend(AAT_BOOL, NOT_ARRAY),
          ProgAppend(3, NOT_ARRAY), ProgAppend(AAT_INT, NOT_TABLE)}
    \cup {ProgJz(kind) : kind \in CondKinds}
    \cup {ProgAddSub(x, y, z) : x \in {0, 7}, y \in {0, 3}, z \in {0, 7}}
    \cup {ProgUnhandled(op) : op \in Unimplemented \cup UnknownOpcodes}
    \cup {ProgTable("root", "str", "none", 0), ProgTable("new", "int", "same", 1),
          ProgTailRoot(2), ProgNoReturn, ProgNested2(1)}

\* the root table through LOADROOT in two frames: main stores y = 7 in it, the
\* function it calls reads y and the native `name` through its own reference
ProgRoot(name) ==
    << Proto("main", 7, << String("y") >>,
             << Ins("LOADROOT", 1, 0, 0, 0), Ins("LOADINT", 3, 7, 0, 0),
                Ins("LOAD", 2, 0, 0, 0), Ins("NEWSLOT", NoTarget, 1, 2, 3),
                Ins("CLOSURE", 4, 0, 0, 0), Ins("MOVE", 5, 0, 0, 0),
                Ins("CALL", 2, 4, 5, 1), Ins("RETURN", 1, 2, 0, 0) >>, <<2>>),
       Proto("reader", 6, << String("y"), String(name) >>,
             << Ins("LOADROOT", 1, 0, 0, 0), Ins("GETK", 2, 0, 1, 0),
                Ins("PREPCALLK", 3, 1, 1, 4), Ins("RETURN", 1, 2, 0, 0) >>, <<>>) >>

\* iterative factorial of n: R1 = 1; while R2 > 0 { R1 = R1 * R2; R2 = R2 - 1 }
ProgFactorial(n) ==
    << Proto("main", 6, <<>>,
             << Ins("LOADINT", 1, 1, 0, 0), Ins("LOADINT", 2, n, 0, 0),
                Ins("LOADINT", 3, 1, 0, 0), Ins("LOADINT", 4, 0, 0, 0),
                Ins("JCMP", 4, 3, 2, CompOp.G), Ins("MUL", 1, 2, 1, 0),
                Ins("SUB", 2, 3, 2, 0), Ins("JMP", 0, Arg1Of(-4), 0, 0),
                Ins("RETURN", 1, 1, 0, 0) >>, <<>>) >>

\* a forward JMP over d instructions; returns the number of the one it lands on
ProgJmp(d) ==
    << Proto("main", 4, <<>>,
             << Ins("LOADINT", 1, 0, 0, 0), Ins("JMP", 0, d, 0, 0),
                Ins("LOADINT", 1, 1, 0, 0), Ins("LOADINT", 1, 2, 0, 0),
                Ins("RETURN", 1, 1, 0, 0) >>, <<>>) >>

\* the instructions that put a value of a kind in register reg
LoadIns(reg, kind) ==
    CASE kind = "int5" -> << Ins("LOADINT", reg, 5, 0, 0) >>
      [] kind = "int6" -> << Ins("LOADINT", reg, 6, 0, 0) >>
      [] kind = "strx" -> << Ins("LOAD", reg, 0, 0, 0) >>
      [] kind = "stry" -> << Ins("LOAD", reg, 1, 0, 0) >>
      [] kind = "float" -> << Ins("LOAD", reg, 5, 0, 0) >>
      [] kind = "bool" -> << Ins("LOADINT", reg, 5, 0, 0), Ins("EQ", reg, reg, reg, 0) >>
      [] kind = "table" -> << Ins("NEWOBJ", reg, 0, 0, NOT_TABLE) >>
      [] kind = "array" -> << Ins("NEWOBJ", reg, 0, 0, NOT_ARRAY) >>
      [] kind = "closure" -> << Ins("CLOSURE", reg, 0, 0, 0) >>
      [] kind = "native" -> << Ins("LOADROOT", reg, 0, 0, 0), Ins("GETK", reg, 4, reg, 0) >>
      [] OTHER -> << >>

KindLits ==
    << String("x"), String("y"), Integer(5), Integer(6), String("print"),
       [t |-> "Float", i |-> 1, s |-> ""] >>

LitIdx(kind) ==
    CASE kind = "strx" -> 0 [] kind = "stry" -> 1 [] kind = "int5" -> 2 [] OTHER -> 3

\* JCMP of R2 (kind k2) against R1 (kind k1) with selector op: returns 1 when it
\* continues and 0 when it jumps
ProgJcmp(k2, k1, op) ==
    << Proto("main", 5, KindLits,
             LoadIns(1, k1) \o LoadIns(2, k2)
             \o << Ins("LOADINT", 4, 9, 0, 0), Ins("JCMP", 1, 2, 2, op),
                   Ins("LOADINT", 3, 1, 0, 0), Ins("RETURN", 1, 3, 0, 0),
                   Ins("LOADINT", 3, 0, 0, 0), Ins("RETURN", 1, 3, 0, 0) >>, <<>>) >>

\* the array of n elements 10, 20, .. in R1 and the sum 0 in R2
ArrayIns(n) ==
    << Ins("NEWOBJ", 1, 0, 0, NOT_ARRAY) >>
    \o [i \in 1 .. n |-> Ins("APPENDARRAY", 1, 10 * i, AAT_INT, 0)]
    \o << Ins("LOADINT", 2, 0, 0, 0) >>

\* the loop that sums an array of n elements: foreach (v in R1) R2 = R2 + v
ProgForeachLoop(n) ==
    << Proto("main", 8, <<>>,
             ArrayIns(n)
             \o << Ins("FOREACH", 1, 3, 3, 0), Ins("LOADINT", 6, 99, 0, 0),
                   Ins("ADD", 2, 4, 2, 0), Ins("JMP", 0, Arg1Of(-4), 0, 0),
                   Ins("RETURN", 1, 2, 0, 0) >>, <<>>) >>

\* the same sum with m FOREACH instructions in a row, each leaving by a forward
\* jump to the RETURN
ForeachRound(m, j) ==
    << Ins("FOREACH", 1, 3 * (m - j) + 2, 3, 0), Ins("LOADINT", 6, 99, 0, 0),
       Ins("ADD", 2, 4, 2, 0) >>

RECURSIVE ForeachRounds(_, _)
ForeachRounds(m, j) ==
    IF j > m THEN << >> ELSE ForeachRound(m, j) \o ForeachRounds(m, j + 1)

ProgForeach(n, m) ==
    << Proto("main", 8, <<>>,
             ArrayIns(n) \o ForeachRounds(m, 1)
             \o << Ins("LOADINT", 2, 98, 0, 0), Ins("RETURN", 1, 2, 0, 0) >>, <<>>) >>

\* FOREACH on a container of a kind with an index register of a kind
ProgForeachBad(container, index) ==
    << Proto("main", 8, KindLits,
             LoadIns(1, container) \o LoadIns(5, index)
             \o << Ins("FOREACH", 1, 1, 3, 0), Ins("LOADINT", 6, 99, 0, 0),
                   Ins("RETURN", 1, 5, 0, 0) >>, <<>>) >>

\* a tail call with n arguments at offset off; the callee returns its R[ret]
ProgTailArgs(off, n, ret) ==
    << Proto("main", 6, <<>>,
             << Ins("CLOSURE", 5, 0, 0, 0), Ins("LOADINT", 1, 21, 0, 0),
                Ins("LOADINT", 2, 22, 0, 0), Ins("LOADINT", 3, 23, 0, 0),
                Ins("LOADINT", 4, 24, 0, 0), Ins("TAILCALL", 0, 5, off, n) >>, <<2>>),
       Proto("callee", 6, <<>>, << Ins("RETURN", 1, ret, 0, 0) >>, <<>>) >>

\* CLONE of a value of a kind, then an entry added to the original and a
\* different one to the clone when they are containers; returns the clone
ProgClone(kind) ==
    << Proto("main", 6, KindLits,
             LoadIns(1, kind)
             \o (CASE kind = "table" ->
                        << Ins("LOADINT", 2, 5, 0, 0), Ins("NEWSLOT", NoTarget, 1, 2, 2),
                           Ins("CLONE", 3, 1, 0, 0), Ins("LOADINT", 4, 6, 0, 0),
                           Ins("NEWSLOT", NoTarget, 1, 4, 4),
                           Ins("NEWSLOT", NoTarget, 3, 2, 4) >>
                   [] kind = "array" ->
                        << Ins("NEWOBJ", 2, 0, 0, NOT_TABLE),
                           Ins("APPENDARRAY", 1, 2, AAT_STACK, 0),
                           Ins("CLONE", 3, 1, 0, 0),
                           Ins("APPENDARRAY", 1, 5, AAT_INT, 0),
                           Ins("APPENDARRAY", 3, 6, AAT_INT, 0),
                           Ins("LOADINT", 4, 7, 0, 0),
                           Ins("NEWSLOT", NoTarget, 2, 4, 4) >>
                   [] OTHER -> << Ins("CLONE", 3, 1, 0, 0) >>)
             \o << Ins("RETURN", 1, 3, 0, 0) >>, <<2>>),
       Proto("four", 2, <<>>,
             << Ins("LOADINT", 1, 4, 0, 0), Ins("RETURN", 1, 1, 0, 0) >>, <<>>) >>

\* EQ of R1 (kind k1) with R2 or, when lit, with the literal of kind k2
ProgEq(k1, k2, lit) ==
    << Proto("main", 5, KindLits,
             LoadIns(1, k1) \o LoadIns(2, k2)
             \o << Ins("LOADINT", 3, 9, 0, 0),
                   IF lit THEN Ins("EQ", 3, LitIdx(k2), 1, 1) ELSE Ins("EQ", 3, 2, 1, 0),
                   Ins("RETURN", 1, 3, 0, 0) >>, <<>>) >>

\* the programs of the third specification: the root table, jumps,
\* comparisons and iteration
ProgramsC ==
    {ProgRoot("print"), ProgFactorial(5), ProgConst(Arg1Of(-1), 1), ProgJmp(1),
     ProgJmp(Arg1Of(-1)), ProgForeachLoop(3), ProgForeach(2, 3), ProgForeach(0, 1),
     ProgForeachBad("table", "null"), ProgForeachBad("array", "strx"),
     ProgForeachBad("int5", "strx")}
    \cup {ProgJcmp(k[1], k[2], op) :
              k \in {<<"int5", "int5">>, <<"int5", "int6">>, <<"int6", "int5">>},
              op \in {CompOp.G, CompOp.GE, CompOp.L, CompOp.LE}}
    \cup {ProgJcmp("int5", "int6", CompOp._3W), ProgJcmp("int5", "int5", CompOp._3W),
          ProgJcmp("int5", "int6", 1), ProgJcmp("int5", "strx", CompOp.G),
          ProgJcmp("null", "int5", CompOp.L)}

\* the programs of the fourth specification: tail-call arguments, clones and
\* equality
ProgramsD ==
    {ProgTailArgs(1, 3, 1), ProgTailArgs(2, 2, 0), ProgTailArgs(3, 1, 3)}
    \cup {ProgClone(kind) : kind \in {"table", "array", "int5", "strx", "bool", "float",
                                       "null", "closure", "native"}}
    \cup {ProgEq("int5", "int5", TRUE), ProgEq("strx", "stry", TRUE),
          ProgEq("int5", "strx", TRUE), ProgEq("int5", "int6", FALSE),
          ProgEq("strx", "strx", FALSE), ProgEq("strx", "int5", FALSE),
          ProgEq("null", "null", FALSE), ProgEq("bool", "bool", FALSE)}

\* NEWSLOT with a key of a kind on a new table or on the root table, then the
\* key is looked up
ProgKey(tbl, kind) ==
    << Proto("main", 6, KindLits,
             << IF tbl = "root" THEN Ins("LOADROOT", 1, 0, 0, 0)
                ELSE Ins("NEWOBJ", 1, 0, 0, NOT_TABLE) >>
             \o LoadIns(2, kind)
             \o << Ins("LOADINT", 3, 7, 0, 0), Ins("NEWSLOT", NoTarget, 1, 2, 3),
                   Ins("RETURN", 1, 3, 0, 0) >>, <<2>>),
       Proto("four", 2, <<>>,
             << Ins("LOADINT", 1, 4, 0, 0), Ins("RETURN", 1, 1, 0, 0) >>, <<>>) >>

\* CALL of a register that holds a value of a kind
ProgCall(kind) ==
    << Proto("main", 6, KindLits,
             LoadIns(1, kind)
             \o << Ins("LOADINT", 2, 8, 0, 0), Ins("MOVE", 3, 0, 0, 0),
                   Ins("CALL", 2, 1, 3, 1), Ins("RETURN", 1, 2, 0, 0) >>, <<2>>),
       Proto("four", 2, <<>>,
             << Ins("LOADINT", 1, 4, 0, 0), Ins("RETURN", 1, 1, 0, 0) >>, <<>>) >>

\* TAILCALL of R1, which holds a value of the kind, with R2 moved to R0
ProgTailKind(kind) ==
    << Proto("main", 6, KindLits,
             LoadIns(1, kind)
             \o << Ins("LOADINT", 2, 8, 0, 0), Ins("TAILCALL", 0, 1, 2, 1) >>, <<2>>),
       Proto("four", 2, <<>>,
             << Ins("LOADINT", 1, 4, 0, 0), Ins("RETURN", 1, 1, 0, 0) >>, <<>>) >>

\* R3 = x op y for DIV and MOD
ProgDiv(op, x, y) ==
    << Proto("main", 5, <<>>,
             << Ins("LOADINT", 1, x, 0, 0), Ins("LOADINT", 2, y, 0, 0),
                Ins(op, 3, 2, 1, 0), Ins("RETURN", 1, 3, 0, 0) >>, <<>>) >>

\* the programs of the fifth specification: table keys, calls of values that
\* are not callable, tail calls, division, and fetches outside the instructions
ProgramsE ==
    {ProgKey("new", kind) : kind \in {"int5", "strx", "bool", "float", "null", "table",
                                      "array", "closure", "native"}}
    \cup {ProgKey("root", "null"), ProgKey("root", "strx")}
    \cup {ProgCall(kind) : kind \in {"null", "int5", "strx", "table", "closure",
                                     "native"}}
    \cup {ProgTailKind(kind) : kind \in {"null", "int5", "closure", "native"}}
    \cup {ProgDiv(op, x, y) : op \in {"DIV", "MOD"}, x \in {0, 7}, y \in {0, 2}}
    \cup {ProgNoReturn, ProgJmp(1), ProgJmp(4), ProgJmp(Arg1Of(-3))}

(***************************************************************************)
(* The state of the interpreter loop.                                      *)
(***************************************************************************)
Depth == Len(callstack)
ci == callstack[Depth]
func == protos[ci.closure.i]
CanFetch == ci.ip >= 0 /\ ci.ip < Len(func.instructions)
instr == func.instructions[ci.ip + 1]

Opcodes == {"LOADINT", "LOAD", "MOVE", "ADD", "SUB", "MUL", "DIV", "MOD", "EQ", "JZ",
            "CLOSURE", "NEWSLOT", "GETK", "CALL", "TAILCALL", "RETURN", "NEWOBJ",
            "LOADROOT", "PREPCALL", "PREPCALLK", "APPENDARRAY", "JMP", "JCMP",
            "FOREACH", "CLONE"} \cup Unimplemented

\* impl Debug for Instruction: "{:?} {} {} {} {}" of opcode, arg0, arg1, arg2, arg3
InstrDebug(ins) ==
    ins.op \o " " \o IntToStr(ins.arg0) \o " " \o IntToStr(ins.arg1) \o " "
        \o IntToStr(ins.arg2) \o " " \o IntToStr(ins.arg3)

\* Profiling::instruction (instr_profiling on)
Count(oc, op) == [oc EXCEPT ![op] = @ + 1]

RECURSIVE SumOver(_, _)
SumOver(oc, ops) ==
    IF ops = {} THEN 0
    ELSE LET o == CHOOSE x \in ops : TRUE IN oc[o] + SumOver(oc, ops \ {o})

Steps == SumOver(op_count, Opcodes)

\* the state before the step, kept for the properties
Snapshot(op, ins) ==
    [op |-> op, instr |-> ins, stack |-> stack, frame |-> frame,
     callstack |-> callstack, heap |-> heap, pc |-> pc, pending |-> ghost.pending]

\* ci.ip += 1 after the fetch
Advance(cs) == [cs EXCEPT ![Len(cs)].ip = @ + 1]

\* ci.ip += n (a jump, after the fetch)
Jump(cs, n) == [cs EXCEPT ![Len(cs)].ip = @ + 1 + n]

RegOK(pos) == InRange(Slot(frame, pos))

R(pos) == value(stack, frame, pos)

SetR(st, pos, v) == SlotSet(st, Slot(frame, pos), v)

LitOK(idx) == idx >= 0 /\ idx < Len(func.literals)

Lit(idx) == func.literals[idx + 1]

\* the fetch of an instruction with the opcode op
Fetch(op) ==
    /\ pc = "exec"
    /\ Steps < MaxSteps
    /\ CanFetch
    /\ instr.op = op
    /\ op_count' = Count(op_count, op)
    /\ last' = Snapshot(op, instr)
    /\ UNCHANGED <<protos, entry, ld>>

\* LoopState::Continue
Continue(st, hp, cs) ==
    /\ pc' = "exec"
    /\ stack' = st
    /\ heap' = hp
    /\ callstack' = cs
    /\ UNCHANGED <<frame, result>>

\* return Err(Error::RuntimeError(msg)) out of execute()
Fail(msg) ==
    /\ pc' = "embed"
    /\ result' = ApiResult("execute", Err(msg))
    /\ callstack' = Advance(callstack)
    /\ UNCHANGED <<stack, frame, heap>>

\* a panic: the VM aborts
Abort ==
    /\ pc' = "abort"
    /\ result' = ApiResult("execute", Panic)
    /\ callstack' = Advance(callstack)
    /\ UNCHANGED <<stack, frame, heap>>

\* the frame a native closure runs in: {base: new_base, top: new_base + nargs}
\* variant: the advertised nargs is left out of the top
native_frame_noargs(new_base, nargs) == StackFrame(new_base, new_base)

native_frame(new_base, nargs) == StackFrame(new_base, new_base + nargs)

(***************************************************************************)
(* History kept for the properties; no action reads it.                    *)
(*   entry: the frame, the call-info depth and the counters at the last    *)
(*          entry of execute() into its loop, whether the call-info on top *)
(*          was the root one, and whether that entry followed a call();    *)
(*   ghost.native_calls: the CALLs since that entry that ran a native;     *)
(*   ghost.native_frame: the frame the last native was invoked with;       *)
(*   ghost.pending: one record per CALL on a closure that has not returned *)
(*          yet: the caller's frame and closure, the CALL and its index;   *)
(*   ghost.slots: per table and key, the value of the latest NEWSLOT or    *)
(*          add_native_func.                                               *)
(***************************************************************************)
GhostCall ==
    IF ~RegOK(instr.arg1) THEN ghost
    ELSE CASE R(instr.arg1).t = "Closure" ->
                [ghost EXCEPT !.pending =
                    Append(@, [frame |-> frame, closure |-> ci.closure, instr |-> instr,
                               at |-> ci.ip])]
           [] R(instr.arg1).t = "NativeClosure" ->
                [ghost EXCEPT !.native_calls = @ + 1,
                              !.native_frame = native_frame(frame.base + instr.arg2,
                                                            R(instr.arg1).i)]
           [] OTHER -> ghost

GhostReturn ==
    IF ci.root \/ ghost.pending = <<>> THEN ghost
    ELSE [ghost EXCEPT !.pending = SubSeq(@, 1, Len(@) - 1)]

GhostNewslot ==
    IF ~RegOK(instr.arg2) \/ ~RegOK(instr.arg3) \/ ~RegOK(instr.arg1) THEN ghost
    ELSE IF R(instr.arg1).t # "Table" \/ ~Hashable(R(instr.arg2)) THEN ghost
    ELSE [ghost EXCEPT !.slots =
             {e \in @ : ~(e.ref = R(instr.arg1).i /\ e.k = R(instr.arg2))}
             \cup {[ref |-> R(instr.arg1).i, k |-> R(instr.arg2), v |-> R(instr.arg3)]}]

(***************************************************************************)
(* The opcode arms of execute().                                           *)
(***************************************************************************)
ExecLOADINT ==
    /\ Fetch("LOADINT")
    /\ UNCHANGED ghost
    /\ IF ~RegOK(instr.arg0) THEN Abort
       ELSE Continue(SetR(stack, instr.arg0, Integer(AsInteger(instr.arg1))), heap,
                     Advance(callstack))

ExecLOAD ==
    /\ Fetch("LOAD")
    /\ UNCHANGED ghost
    /\ IF ~LitOK(instr.arg1) \/ ~RegOK(instr.arg0) THEN Abort
       ELSE Continue(SetR(stack, instr.arg0, Lit(instr.arg1)), heap, Advance(callstack))

ExecMOVE ==
    /\ Fetch("MOVE")
    /\ UNCHANGED ghost
    /\ IF ~RegOK(instr.arg1) \/ ~RegOK(instr.arg0) THEN Abort
       ELSE Continue(SetR(stack, instr.arg0, R(instr.arg1)), heap, Advance(callstack))

ArithOps == {"ADD", "SUB", "MUL", "DIV", "MOD"}

ExecArith ==
    \E op \in ArithOps :
        /\ Fetch(op)
        /\ UNCHANGED ghost
        /\ IF ~RegOK(instr.arg2) \/ ~RegOK(instr.arg1) THEN Abort
           ELSE LET res == arith(protos, op, R(instr.arg2), R(instr.arg1)) IN
                CASE res.kind = "panic" -> Abort
                  [] res.kind = "err" -> Fail("unhandled operands")
                  [] OTHER ->
                       IF ~RegOK(instr.arg0) THEN Abort
                       ELSE Continue(SetR(stack, instr.arg0, res.v), heap,
                                     Advance(callstack))

\* the comparison of the EQ arm
\* variant: equality of any two objects
eq_total(op1, op2) == Ok(Bool(op1 = op2))

eq(op1, op2) ==
    CASE op1.t = "Integer" /\ op2.t = "Integer" -> Ok(Bool(op1.i = op2.i))
      [] op1.t = "String" /\ op2.t = "String" -> Ok(Bool(op1.s = op2.s))
      [] OTHER -> Err("unhandled operands")

ExecEQ ==
    /\ Fetch("EQ")
    /\ UNCHANGED ghost
    /\ IF \/ ~RegOK(instr.arg2)
          \/ (instr.arg3 # 0 /\ ~LitOK(instr.arg1))
          \/ (instr.arg3 = 0 /\ ~RegOK(instr.arg1))
       THEN Abort
       ELSE LET op2 == IF instr.arg3 # 0 THEN Lit(instr.arg1) ELSE R(instr.arg1)
                res == eq(R(instr.arg2), op2)
            IN IF res.kind = "err" THEN Fail("unhandled operands")
               ELSE IF ~RegOK(instr.arg0) THEN Abort
               ELSE Continue(SetR(stack, instr.arg0, res.v), heap, Advance(callstack))

\* the condition of the JZ arm
\* variant: the empty string is false
truthy_empty(cond) ==
    CASE cond.t = "Bool" -> Ok(Bool(cond.i = 1))
      [] cond.t = "Integer" -> Ok(Bool(cond.i # 0))
      [] cond.t = "Null" -> Ok(Bool(FALSE))
      [] cond.t = "String" -> Ok(Bool(cond.s # ""))
      [] OTHER -> Err("unsopported condition in JZ")

truthy(cond) ==
    CASE cond.t = "Bool" -> Ok(Bool(cond.i = 1))
      [] cond.t = "Integer" -> Ok(Bool(cond.i # 0))
      [] cond.t = "Null" -> Ok(Bool(FALSE))
      [] cond.t = "String" -> Ok(Bool(TRUE))
      [] OTHER -> Err("unsopported condition in JZ")

ExecJZ ==
    /\ Fetch("JZ")
    /\ UNCHANGED ghost
    /\ IF ~RegOK(instr.arg0) THEN Abort
       ELSE LET b == truthy(R(instr.arg0)) IN
            IF b.kind = "err" THEN Fail("unsopported condition in JZ")
            ELSE IF b.v.i = 0
                 THEN Continue(stack, heap, Jump(callstack, AsInteger(instr.arg1)))
                 ELSE Continue(stack, heap, Advance(callstack))

ExecCLOSURE ==
    /\ Fetch("CLOSURE")
    /\ UNCHANGED ghost
    /\ IF instr.arg1 >= Len(func.functions) \/ ~RegOK(instr.arg0) THEN Abort
       ELSE Continue(SetR(stack, instr.arg0, Closure(func.functions[instr.arg1 + 1])),
                     heap, Advance(callstack))

\* the table update of the NEWSLOT arm: table.map.insert(key, value)
\* variant: the entry goes into a copy of the table
newslot_copy(hp, table, key, val) == hp

newslot(hp, table, key, val) ==
    [hp EXCEPT ![table.i] = TableObj(MapInsert(hp[table.i].map, key, val))]

ExecNEWSLOT ==
    /\ Fetch("NEWSLOT")
    /\ ghost' = GhostNewslot
    /\ IF ~RegOK(instr.arg2) \/ ~RegOK(instr.arg3) \/ ~RegOK(instr.arg1) THEN Abort
       ELSE LET key == R(instr.arg2)
                val == R(instr.arg3)
                table == R(instr.arg1)
            IN IF table.t # "Table" THEN Fail("expected table")
               ELSE IF ~Hashable(key) THEN Abort
               ELSE Continue(stack, newslot(heap, table, key, val), Advance(callstack))

ExecGETK ==
    /\ Fetch("GETK")
    /\ UNCHANGED ghost
    /\ IF ~LitOK(instr.arg1) \/ ~RegOK(instr.arg2) THEN Abort
       ELSE \E v \in GetOutcomes(heap, R(instr.arg2), Lit(instr.arg1)) :
            CASE v.kind = "panic" -> Abort
              [] v.kind = "err" -> Fail(v.v.s)
              [] OTHER ->
                   IF ~RegOK(instr.arg0) THEN Abort
                   ELSE Continue(SetR(stack, instr.arg0, v.v), heap, Advance(callstack))

\* Object::new_table / Object::new_array: a fresh heap object
new_table(hp) == Append(hp, TableObj({}))
new_array(hp) == Append(hp, ArrayObj(<<>>))

ExecNEWOBJ ==
    /\ Fetch("NEWOBJ")
    /\ UNCHANGED ghost
    /\ CASE instr.arg3 = NOT_ARRAY ->
              IF ~RegOK(instr.arg0) THEN Abort
              ELSE Continue(SetR(stack, instr.arg0, Array(Len(heap) + 1)),
                            new_array(heap), Advance(callstack))
         [] instr.arg3 = NOT_TABLE ->
              IF ~RegOK(instr.arg0) THEN Abort
              ELSE Continue(SetR(stack, instr.arg0, Table(Len(heap) + 1)),
                            new_table(heap), Advance(callstack))
         [] OTHER -> Fail("unhandled NEWOBJ type")

\* PREPCALL / PREPCALLK: R[arg3] = R[arg2]; R[arg0] = get(R[arg2], key)
ExecPREPCALL ==
    \E op \in {"PREPCALL", "PREPCALLK"} :
        /\ Fetch(op)
        /\ UNCHANGED ghost
        /\ IF \/ (op = "PREPCALLK" /\ ~LitOK(instr.arg1))
              \/ (op = "PREPCALL" /\ ~RegOK(instr.arg1))
              \/ ~RegOK(instr.arg2)
           THEN Abort
           ELSE LET key == IF op = "PREPCALLK" THEN Lit(instr.arg1) ELSE R(instr.arg1)
                    obj == R(instr.arg2)
                IN \E res \in GetOutcomes(heap, obj, key) :
                      CASE res.kind = "panic" -> Abort
                        [] res.kind = "err" -> Fail(res.v.s)
                        [] OTHER ->
                             IF ~RegOK(instr.arg3) \/ ~RegOK(instr.arg0) THEN Abort
                             ELSE Continue(
                                    SetR(SetR(stack, instr.arg3, obj), instr.arg0, res.v),
                                    heap, Advance(callstack))

\* the value an APPENDARRAY appends, by AppendArrayType
append_value(ins) ==
    CASE ins.arg2 = AAT_STACK -> IF RegOK(ins.arg1) THEN Ok(R(ins.arg1)) ELSE Panic
      [] ins.arg2 = AAT_LITERAL -> IF LitOK(ins.arg1) THEN Ok(Lit(ins.arg1)) ELSE Panic
      [] ins.arg2 = AAT_INT -> Ok(Integer(AsInteger(ins.arg1)))
      [] ins.arg2 = AAT_BOOL -> Ok(Bool(ins.arg1 # 0))
      [] OTHER -> Err("unhandled APPENDARRAY type")

\* array.push(val)
array_push(hp, array, val) ==
    [hp EXCEPT ![array.i] = ArrayObj(Append(hp[array.i].array, val))]

ExecAPPENDARRAY ==
    /\ Fetch("APPENDARRAY")
    /\ UNCHANGED ghost
    /\ LET val == append_value(instr) IN
         CASE val.kind = "panic" -> Abort
           [] val.kind = "err" -> Fail(val.v.s)
           [] OTHER ->
                IF ~RegOK(instr.arg0) THEN Abort
                ELSE IF R(instr.arg0).t # "Array" THEN Fail("expected array")
                ELSE Continue(stack, array_push(heap, R(instr.arg0), val.v),
                              Advance(callstack))

\* the `_` arm of the opcode switch: an opcode of the enumeration without an arm
ExecUnhandled ==
    \E op \in Unimplemented :
        /\ Fetch(op)
        /\ UNCHANGED ghost
        /\ Fail("unhandled opcode: " \o InstrDebug(instr))

\* an opcode byte outside the enumeration: from_u8 gives None and the error
\* message is formatted with impl Debug for Instruction, whose
\* Opcode::from_u8(..).unwrap() panics
ExecUnknown ==
    /\ pc = "exec"
    /\ CanFetch
    /\ instr.op \in UnknownOpcodes
    /\ last' = Snapshot(instr.op, instr)
    /\ Abort
    /\ UNCHANGED <<protos, op_count, entry, ghost, ld>>

ExecJMP ==
    /\ Fetch("JMP")
    /\ UNCHANGED ghost
    /\ Continue(stack, heap, Jump(callstack, AsInteger(instr.arg1)))

\* the three-way comparison of the Integer operands of JCMP
three_way(int1, int2) == IF int1 = int2 THEN 0 ELSE IF int1 < int2 THEN -1 ELSE 1

\* JCMP: the result of the comparison arg3 selects
\* variant: the operands are compared the other way round
jcmp_res_swapped(r, arg3) ==
    CASE arg3 = CompOp.G -> Ok(Bool(r < 0))
      [] arg3 = CompOp.GE -> Ok(Bool(r <= 0))
      [] arg3 = CompOp.L -> Ok(Bool(r > 0))
      [] arg3 = CompOp.LE -> Ok(Bool(r >= 0))
      [] arg3 = CompOp._3W -> Ok(Integer(r))
      [] OTHER -> Err("unhandled comparison op " \o IntToStr(arg3))

jcmp_res(r, arg3) ==
    CASE arg3 = CompOp.G -> Ok(Bool(r > 0))
      [] arg3 = CompOp.GE -> Ok(Bool(r >= 0))
      [] arg3 = CompOp.L -> Ok(Bool(r < 0))
      [] arg3 = CompOp.LE -> Ok(Bool(r <= 0))
      [] arg3 = CompOp._3W -> Ok(Integer(r))
      [] OTHER -> Err("unhandled comparison op " \o IntToStr(arg3))

ExecJCMP ==
    /\ Fetch("JCMP")
    /\ UNCHANGED ghost
    /\ IF ~RegOK(instr.arg2) \/ ~RegOK(instr.arg0) THEN Abort
       ELSE LET op1 == R(instr.arg2)
                op2 == R(instr.arg0)
                res == jcmp_res(three_way(op1.i, op2.i), instr.arg3)
            IN IF op1.t # "Integer" \/ op2.t # "Integer"
               THEN Fail("unhandled operands")
               ELSE IF res.kind = "err" THEN Fail(res.v.s)
               ELSE IF res.v.t # "Bool" THEN Fail("unsopported condition in JZ")
               ELSE IF res.v.i = 0
               THEN Continue(stack, heap, Jump(callstack, AsInteger(instr.arg1)))
               ELSE Continue(stack, heap, Advance(callstack))

\* FOREACH: the position the iteration stands at, from R[arg2 + 2]
foreach_index(obj) ==
    CASE obj.t = "Null" -> Ok(0)
      [] obj.t = "Integer" -> Ok(obj.i)
      [] OTHER -> Err("unexpected iterator index")

\* FOREACH on an array at position index: the registers it writes
\* variant: the position is not advanced
foreach_out_stay(st, hp, ins, index) ==
    SetR(SetR(SetR(st, ins.arg2, Integer(index)),
              ins.arg2 + 1, hp[R(ins.arg0).i].array[index + 1]),
         ins.arg2 + 2, Integer(index))

foreach_out(st, hp, ins, index) ==
    SetR(SetR(SetR(st, ins.arg2, Integer(index)),
              ins.arg2 + 1, hp[R(ins.arg0).i].array[index + 1]),
         ins.arg2 + 2, Integer(index + 1))

ExecFOREACH ==
    /\ Fetch("FOREACH")
    /\ UNCHANGED ghost
    /\ IF ~RegOK(instr.arg0) \/ ~RegOK(instr.arg2) \/ ~RegOK(instr.arg2 + 2) THEN Abort
       ELSE LET container == R(instr.arg0)
                index == foreach_index(R(instr.arg2 + 2))
            IN IF index.kind = "err" THEN Fail(index.v.s)
               ELSE IF container.t # "Array" THEN Fail("cannot iterate")
               \* `i as usize` of a negative i is beyond every length
               ELSE IF index.v >= 0 /\ index.v < Len(heap[container.i].array)
               THEN Continue(foreach_out(stack, heap, instr, index.v), heap,
                             Jump(callstack, 1))
               ELSE Continue(stack, heap, Jump(callstack, AsInteger(instr.arg1)))

\* Object::clone_object: the clone and the heap that holds it
\* variant: a container is cloned as a reference to the same container
clone_object_shared(hp, obj) ==
    CASE obj.t \in {"Integer", "Bool", "Float", "String", "Table", "Array"} ->
              [kind |-> "ok", v |-> obj, heap |-> hp]
      [] OTHER -> [kind |-> "err", v |-> String("cannot clone"), heap |-> hp]

clone_object(hp, obj) ==
    CASE obj.t \in {"Integer", "Bool", "Float", "String"} ->
              [kind |-> "ok", v |-> obj, heap |-> hp]
      [] obj.t = "Table" ->
              [kind |-> "ok", v |-> Table(Len(hp) + 1), heap |-> Append(hp, hp[obj.i])]
      [] obj.t = "Array" ->
              [kind |-> "ok", v |-> Array(Len(hp) + 1), heap |-> Append(hp, hp[obj.i])]
      [] OTHER -> [kind |-> "err", v |-> String("cannot clone"), heap |-> hp]

ExecCLONE ==
    /\ Fetch("CLONE")
    /\ UNCHANGED ghost
    /\ IF ~RegOK(instr.arg1) THEN Abort
       ELSE LET obj == clone_object(heap, R(instr.arg1))
            IN IF obj.kind = "err" THEN Fail(obj.v.s)
               ELSE IF ~RegOK(instr.arg0) THEN Abort
               ELSE Continue(SetR(stack, instr.arg0, obj.v), obj.heap,
                             Advance(callstack))

ExecLOADROOT ==
    /\ Fetch("LOADROOT")
    /\ UNCHANGED ghost
    /\ IF ~RegOK(instr.arg0) THEN Abort
       ELSE Continue(SetR(stack, instr.arg0, Table(RootRef)), heap, Advance(callstack))

(***************************************************************************)
(* The post-switch stage: LoopState::Call, TailCall and LeaveFrame.        *)
(***************************************************************************)
\* the target of a CALL: None when arg0 is 0xFF
\* variant: arg0 is a target register whatever its value
CallTarget_always(ins) == Some(ins.arg0)

CallTarget(ins) == IF ins.arg0 # NoTarget THEN Some(ins.arg0) ELSE NoneTarget

\* `match closure` of LoopState::Call: the arm a callable takes
\* variant: every value takes the Closure arm
call_arm_any(closure) ==
    IF closure.t = "NativeClosure" THEN "NativeClosure" ELSE "Closure"

call_arm(closure) ==
    IF closure.t \in {"Closure", "NativeClosure"} THEN closure.t ELSE "_"

ExecCALL ==
    /\ Fetch("CALL")
    /\ ghost' = GhostCall
    /\ IF ~RegOK(instr.arg1)
       THEN Abort
       ELSE LET closure == R(instr.arg1)
                new_base == frame.base + instr.arg2
            IN CASE call_arm(closure) = "Closure" ->
                      LET sc == start_call(Advance(callstack), frame, closure,
                                           CallTarget(instr), instr.arg3, new_base)
                      IN /\ pc' = "exec"
                         /\ callstack' = sc.callstack
                         /\ frame' = sc.frame
                         /\ UNCHANGED <<stack, heap, result>>
                 [] call_arm(closure) = "NativeClosure" ->
                      LET nr == NativeRun(closure.s, stack,
                                          native_frame(new_base, closure.i))
                      IN IF nr.kind = "panic" THEN Abort
                         ELSE Continue(nr.stack, heap, Advance(callstack))
                 [] OTHER -> Fail("expected Closure or NativeClosure")

\* the swap loop of LoopState::TailCall: R[i] <-> R[arg_offset + i], i in [from, num_args)
\* variant: the registers are exchanged from the last argument down
RECURSIVE SwapArgs_down(_, _, _, _, _)
SwapArgs_down(st, fr, from, num_args, arg_offset) ==
    IF from >= num_args THEN st
    ELSE swap(SwapArgs_down(st, fr, from + 1, num_args, arg_offset), fr, from,
              arg_offset + from)

RECURSIVE SwapArgs(_, _, _, _, _)
SwapArgs(st, fr, from, num_args, arg_offset) ==
    IF from >= num_args THEN st
    ELSE SwapArgs(swap(st, fr, from, arg_offset + from), fr, from + 1, num_args,
                  arg_offset)

\* the call-info after LoopState::TailCall: closure replaced, ip = 0
\* variant: the tail call enters the callee with a call-info of its own
tailcall_push(cs, closure) ==
    Append(cs, CallInfo(cs[Len(cs)].prevframe, closure, 0, FALSE, cs[Len(cs)].target))

\* variant: the callee is checked before the call-info is touched
tailcall_checked(cs, closure) ==
    IF closure.t = "Closure"
    THEN [cs EXCEPT ![Len(cs)].closure = closure, ![Len(cs)].ip = 0]
    ELSE cs

tailcall(cs, closure) ==
    [cs EXCEPT ![Len(cs)].closure = closure, ![Len(cs)].ip = 0]

\* the stack frame after LoopState::TailCall: no set_frame, the frame stays
\* variant: the frame is sized for the prototype the tail call enters
tailcall_frame_resized(fr, closure) ==
    IF closure.t = "Closure"
    THEN StackFrame(fr.base, fr.base + protos[closure.i].stacksize)
    ELSE fr

tailcall_frame(fr, closure) == fr

ExecTAILCALL ==
    /\ Fetch("TAILCALL")
    /\ UNCHANGED ghost
    /\ IF \/ ~RegOK(instr.arg1)
          \/ \E i \in 0 .. (instr.arg3 - 1) : ~RegOK(i) \/ ~RegOK(instr.arg2 + i)
       THEN Abort
       ELSE LET closure == R(instr.arg1)
                st == SwapArgs(stack, frame, 0, instr.arg3, instr.arg2)
            IN /\ stack' = st
               /\ callstack' = tailcall(callstack, closure)
               /\ frame' = tailcall_frame(frame, closure)
               /\ UNCHANGED heap
               /\ IF closure.t = "Closure"
                  THEN pc' = "exec" /\ UNCHANGED result
                  ELSE /\ pc' = "embed"
                       /\ result' = ApiResult("execute", Err("expected closure"))

\* the value a RETURN leaves the frame with
\* variant: the value is read whatever arg0 says
retval_always(ins) == R(ins.arg1)

\* variant: callstack.pop() left out
PopCallInfo_keep(cs) == cs

retval(ins) == IF ins.arg0 = NoTarget THEN Null ELSE R(ins.arg1)

\* callstack.pop()
PopCallInfo(cs) == SubSeq(cs, 1, Len(cs) - 1)

ExecRETURN ==
    /\ Fetch("RETURN")
    /\ ghost' = GhostReturn
    /\ IF instr.arg0 # NoTarget /\ ~RegOK(instr.arg1)
       THEN Abort
       ELSE IF ci.root
       THEN /\ pc' = "embed"
            /\ result' = ApiResult("execute", Ok(retval(instr)))
            /\ callstack' = Advance(callstack)
            /\ UNCHANGED <<stack, frame, heap>>
       ELSE LET cs == PopCallInfo(Advance(callstack))
                target == ci.target
                slot == ci.prevframe.base + target.v
            IN IF cs = <<>>
               THEN /\ pc' = "embed"
                    /\ result' = ApiResult("execute", Err("callstack empty"))
                    /\ callstack' = cs
                    /\ frame' = ci.prevframe
                    /\ UNCHANGED <<stack, heap>>
               ELSE IF target.some /\ ~InRange(slot)
               THEN /\ pc' = "abort"
                    /\ result' = ApiResult("execute", Panic)
                    /\ callstack' = cs
                    /\ frame' = ci.prevframe
                    /\ UNCHANGED <<stack, heap>>
               ELSE /\ callstack' = cs
                    /\ frame' = ci.prevframe
                    /\ stack' = IF target.some THEN SlotSet(stack, slot, retval(instr))
                                ELSE stack
                    /\ UNCHANGED heap
                    /\ IF cs[Len(cs)].closure.t = "Closure"
                       THEN pc' = "exec" /\ UNCHANGED result
                       ELSE /\ pc' = "embed"
                            /\ result' = ApiResult("execute", Err("expected closure"))

\* the fetch `func.instructions[ci.ip as usize]` with ip outside the instructions
\* variant: the fetch is checked and execute() returns an error
FetchPanic_checked ==
    /\ pc = "exec"
    /\ ~CanFetch
    /\ pc' = "embed"
    /\ result' = ApiResult("execute", Err("ip out of range"))
    /\ last' = Snapshot("fetch", Ins("fetch", 0, 0, 0, 0))
    /\ UNCHANGED <<protos, stack, frame, callstack, heap, op_count, entry, ghost, ld>>

FetchPanic ==
    /\ pc = "exec"
    /\ ~CanFetch
    /\ pc' = "abort"
    /\ result' = ApiResult("execute", Panic)
    /\ last' = Snapshot("fetch", Ins("fetch", 0, 0, 0, 0))
    /\ UNCHANGED <<protos, stack, frame, callstack, heap, op_count, entry, ghost, ld>>

(***************************************************************************)
(* The embedder API.                                                       *)
(***************************************************************************)
Returned(api, r) ==
    /\ pc' = "embed"
    /\ result' = ApiResult(api, r)

\* the values the embedder pushes: the closure read_closure returned and, before
\* the division programs, a native closure as well
PushValues ==
    IF \E op \in {"DIV", "MOD"}, x, y \in {0, 2, 7} : protos = ProgDiv(op, x, y)
    THEN {Closure(TopProto), native_closure("print")}
    ELSE {Closure(TopProto)}

\* no call, execute or instruction has happened since the last push
NoStep ==
    [op |-> "none", instr |-> Ins("none", 0, 0, 0, 0), stack |-> EmptyStack,
     frame |-> StackFrame(1, 1), callstack |-> <<>>, heap |-> << TableObj({}) >>,
     pc |-> "embed", pending |-> <<>>]

\* Stack::push: the stack and frame it leaves
push(st, fr, obj) ==
    [stack |-> SlotSet(st, fr.top, obj), frame |-> StackFrame(fr.base, fr.top + 1)]

\* executor.stack().push(obj)
Push ==
    /\ pc = "embed"
    /\ callstack = <<>>
    /\ frame.top - 1 < MaxPush
    /\ \E obj \in PushValues :
          /\ stack' = push(stack, frame, obj).stack
          /\ frame' = push(stack, frame, obj).frame
    /\ last' = NoStep
    /\ result' = NoResult
    /\ UNCHANGED <<protos, callstack, heap, op_count, pc, entry, ghost, ld>>

\* Executor::push_roottable
push_roottable ==
    /\ pc = "embed"
    /\ callstack = <<>>
    /\ frame.top - 1 < MaxPush
    /\ stack' = push(stack, frame, Table(RootRef)).stack
    /\ frame' = push(stack, frame, Table(RootRef)).frame
    /\ last' = NoStep
    /\ result' = NoResult
    /\ UNCHANGED <<protos, callstack, heap, op_count, pc, entry, ghost, ld>>

\* Executor::add_native_func
add_native_func ==
    /\ pc = "embed"
    /\ callstack = <<>>
    /\ \E name \in NativeNames :
          /\ heap' = newslot(heap, Table(RootRef), String(name), native_closure(name))
          /\ ghost' = [ghost EXCEPT !.slots =
                          {e \in @ : ~(e.ref = RootRef /\ e.k = String(name))}
                          \cup {[ref |-> RootRef, k |-> String(name),
                                 v |-> native_closure(name)]}]
    /\ last' = NoStep
    /\ result' = NoResult
    /\ UNCHANGED <<protos, stack, frame, callstack, op_count, pc, entry, ld>>

\* call_info.root = true on the last call-info
\* variant: the call-info call() pushed is left as start_call made it
MarkRoot_skip(cs) == cs

MarkRoot(cs) == [cs EXCEPT ![Len(cs)].root = TRUE]

\* variant: the root frame starts at the callable
RootBase_callable(top, num_params) == top - (num_params + 1)

\* the base of the root frame call() sets up: `top - num_params`
RootBase(top, num_params) == top - num_params

\* Executor::call
call ==
    /\ pc = "embed"
    /\ Depth < MaxCalls
    /\ \E num_params \in 0 .. MaxParams :
          LET top == frame.top
              slot == UpSlot(frame, -(num_params + 1))
          IN /\ last' = Snapshot("call", Ins("call", 0, num_params, 0, 0))
             /\ IF ~InRange(slot)
                THEN /\ pc' = "abort"
                     /\ result' = ApiResult("call", Panic)
                     /\ UNCHANGED <<callstack, frame>>
                ELSE LET sc == start_call(callstack, frame, SlotGet(stack, slot),
                                          Some(RootBase(top, num_params)), num_params,
                                          RootBase(top, num_params))
                     IN IF sc.kind = "err"
                        THEN /\ Returned("call", Err("expected closure"))
                             /\ UNCHANGED <<callstack, frame>>
                        ELSE /\ Returned("call", Ok(Null))
                             /\ callstack' = MarkRoot(sc.callstack)
                             /\ frame' = pop(sc.frame, num_params)
    /\ UNCHANGED <<protos, stack, heap, op_count, entry, ghost, ld>>

\* the checks of execute() before its loop: the last call-info and its closure
\* variant: the last call-info is unwrapped
execute_entry_unwrap(cs) ==
    IF cs = <<>> THEN Panic
    ELSE IF cs[Len(cs)].closure.t # "Closure" THEN Err("expected closure")
    ELSE Ok(Null)

execute_entry(cs) ==
    IF cs = <<>> THEN Err("callstack empty")
    ELSE IF cs[Len(cs)].closure.t # "Closure" THEN Err("expected closure")
    ELSE Ok(Null)

\* Executor::execute up to the loop
execute ==
    /\ pc = "embed"
    /\ last' = Snapshot("execute", Ins("execute", 0, 0, 0, 0))
    /\ IF execute_entry(callstack).kind # "ok"
       THEN Returned("execute", execute_entry(callstack)) /\ UNCHANGED <<entry, ghost>>
       ELSE /\ pc' = "exec"
            /\ result' = ApiResult("execute", None)
            /\ entry' = [frame |-> frame, depth |-> Depth, root |-> ci.root,
                         fresh |-> (last.op = "call" /\ result.kind = "ok"),
                         op_count |-> op_count]
            /\ ghost' = [ghost EXCEPT !.native_calls = 0]
    /\ UNCHANGED <<protos, stack, frame, callstack, heap, op_count, ld>>

(***************************************************************************)
(* The specification.                                                      *)
(***************************************************************************)
\* read_closure, then Executor::new and Stack::new
Init ==
    /\ protos \in Programs
    /\ stack = EmptyStack
    /\ frame = StackFrame(1, 1)
    /\ callstack = <<>>
    /\ heap = << TableObj({}) >>
    /\ op_count = [o \in Opcodes |-> 0]
    /\ pc = "embed"
    /\ result = NoResult
    /\ last = NoStep
    /\ entry = [frame |-> StackFrame(1, 1), depth |-> 0, root |-> FALSE,
                fresh |-> FALSE, op_count |-> [o \in Opcodes |-> 0]]
    /\ ghost = [native_calls |-> 0, native_frame |-> StackFrame(0, 0),
                pending |-> <<>>, slots |-> {}]
    /\ ld = LdIdle

Next ==
    \/ Push
    \/ push_roottable
    \/ add_native_func
    \/ call
    \/ execute
    \/ ExecLOADINT
    \/ ExecLOAD
    \/ ExecMOVE
    \/ ExecArith
    \/ ExecEQ
    \/ ExecJZ
    \/ ExecCLOSURE
    \/ ExecNEWSLOT
    \/ ExecGETK
    \/ ExecNEWOBJ
    \/ ExecLOADROOT
    \/ ExecPREPCALL
    \/ ExecAPPENDARRAY
    \/ ExecUnhandled
    \/ ExecUnknown
    \/ ExecCALL
    \/ ExecTAILCALL
    \/ ExecRETURN
    \/ FetchPanic

Spec == Init /\ [][Next]_vars

\* the same executor on the programs of ProgramsB
InitB ==
    /\ protos \in ProgramsB
    /\ stack = EmptyStack
    /\ frame = StackFrame(1, 1)
    /\ callstack = <<>>
    /\ heap = << TableObj({}) >>
    /\ op_count = [o \in Opcodes |-> 0]
    /\ pc = "embed"
    /\ result = NoResult
    /\ last = NoStep
    /\ entry = [frame |-> StackFrame(1, 1), depth |-> 0, root |-> FALSE,
                fresh |-> FALSE, op_count |-> [o \in Opcodes |-> 0]]
    /\ ghost = [native_calls |-> 0, native_frame |-> StackFrame(0, 0),
                pending |-> <<>>, slots |-> {}]
    /\ ld = LdIdle

SpecB == InitB /\ [][Next]_vars

\* the same executor on the programs of ProgramsC, with the arms they reach
InitC ==
    /\ protos \in ProgramsC
    /\ stack = EmptyStack
    /\ frame = StackFrame(1, 1)
    /\ callstack = <<>>
    /\ heap = << TableObj({}) >>
    /\ op_count = [o \in Opcodes |-> 0]
    /\ pc = "embed"
    /\ result = NoResult
    /\ last = NoStep
    /\ entry = [frame |-> StackFrame(1, 1), depth |-> 0, root |-> FALSE,
                fresh |-> FALSE, op_count |-> [o \in Opcodes |-> 0]]
    /\ ghost = [native_calls |-> 0, native_frame |-> StackFrame(0, 0),
                pending |-> <<>>, slots |-> {}]
    /\ ld = LdIdle

NextC ==
    \/ Push
    \/ push_roottable
    \/ add_native_func
    \/ call
    \/ execute
    \/ ExecLOADINT
    \/ ExecLOAD
    \/ ExecMOVE
    \/ ExecArith
    \/ ExecJMP
    \/ ExecJCMP
    \/ ExecCLOSURE
    \/ ExecNEWSLOT
    \/ ExecGETK
    \/ ExecNEWOBJ
    \/ ExecLOADROOT
    \/ ExecFOREACH
    \/ ExecPREPCALL
    \/ ExecAPPENDARRAY
    \/ ExecCALL
    \/ ExecRETURN
    \/ FetchPanic

SpecC == InitC /\ [][NextC]_vars

\* the same executor on the programs of ProgramsD, with the arms they reach
InitD ==
    /\ protos \in ProgramsD
    /\ stack = EmptyStack
    /\ frame = StackFrame(1, 1)
    /\ callstack = <<>>
    /\ heap = << TableObj({}) >>
    /\ op_count = [o \in Opcodes |-> 0]
    /\ pc = "embed"
    /\ result = NoResult
    /\ last = NoStep
    /\ entry = [frame |-> StackFrame(1, 1), depth |-> 0, root |-> FALSE,
                fresh |-> FALSE, op_count |-> [o \in Opcodes |-> 0]]
    /\ ghost = [native_calls |-> 0, native_frame |-> StackFrame(0, 0),
                pending |-> <<>>, slots |-> {}]
    /\ ld = LdIdle

NextD ==
    \/ Push
    \/ push_roottable
    \/ add_native_func
    \/ call
    \/ execute
    \/ ExecLOADINT
    \/ ExecLOAD
    \/ ExecEQ
    \/ ExecCLOSURE
    \/ ExecNEWSLOT
    \/ ExecGETK
    \/ ExecNEWOBJ
    \/ ExecLOADROOT
    \/ ExecCLONE
    \/ ExecAPPENDARRAY
    \/ ExecTAILCALL
    \/ ExecRETURN
    \/ FetchPanic

SpecD == InitD /\ [][NextD]_vars

\* the same executor on the programs of ProgramsE, with the arms they reach
InitE ==
    /\ protos \in ProgramsE
    /\ stack = EmptyStack
    /\ frame = StackFrame(1, 1)
    /\ callstack = <<>>
    /\ heap = << TableObj({}) >>
    /\ op_count = [o \in Opcodes |-> 0]
    /\ pc = "embed"
    /\ result = NoResult
    /\ last = NoStep
    /\ entry = [frame |-> StackFrame(1, 1), depth |-> 0, root |-> FALSE,
                fresh |-> FALSE, op_count |-> [o \in Opcodes |-> 0]]
    /\ ghost = [native_calls |-> 0, native_frame |-> StackFrame(0, 0),
                pending |-> <<>>, slots |-> {}]
    /\ ld = LdIdle

NextE ==
    \/ Push
    \/ push_roottable
    \/ add_native_func
    \/ call
    \/ execute
    \/ ExecLOADINT
    \/ ExecLOAD
    \/ ExecMOVE
    \/ ExecArith
    \/ ExecEQ
    \/ ExecJMP
    \/ ExecCLOSURE
    \/ ExecNEWSLOT
    \/ ExecGETK
    \/ ExecNEWOBJ
    \/ ExecLOADROOT
    \/ ExecCALL
    \/ ExecTAILCALL
    \/ ExecRETURN
    \/ FetchPanic

SpecE == InitE /\ [][NextE]_vars

(***************************************************************************)
(* The bytecode loader (src/src/io.rs).  The reader is a byte sequence     *)
(* and a count of consumed bytes, as for `&[u8]` or a file: an exact read  *)
(* (byteorder's read_u16/u32/u64/i64/f32) fails with an I/O error when     *)
(* fewer bytes remain, a plain `read` returns however many bytes remain.   *)
(***************************************************************************)
BytecodeStreamTag == 64250
ClosurestreamHead == ((83 * 256 + 81) * 256 + 73) * 256 + 82
ClosurestreamPart == ((80 * 256 + 65) * 256 + 82) * 256 + 84
ClosurestreamTail == ((84 * 256 + 65) * 256 + 73) * 256 + 76
SizeChar == 1
SizeInteger == 8
SizeFloat == 4

\* enum FileTags: the value of each tag
FileTag ==
    [BytecodeStreamTag |-> BytecodeStreamTag, ClosurestreamHead |-> ClosurestreamHead,
     ClosurestreamPart |-> ClosurestreamPart, ClosurestreamTail |-> ClosurestreamTail,
     SizeChar |-> SizeChar, SizeInteger |-> SizeInteger, SizeFloat |-> SizeFloat]

FileTags == {FileTag[n] : n \in DOMAIN FileTag}

REF_COUNTED == 134217728
NUMERIC == 67108864
DELEGABLE == 33554432
CANBEFALSE == 16777216

\* the on-disk type tags: raw type bit plus flag bits (the bits are disjoint)
ObjectType ==
    [Null |-> 1 + CANBEFALSE,
     Integer |-> 2 + NUMERIC + CANBEFALSE,
     Float |-> 4 + NUMERIC + CANBEFALSE,
     Bool |-> 8 + CANBEFALSE,
     String |-> 16 + REF_COUNTED,
     Table |-> 32 + REF_COUNTED + DELEGABLE,
     Array |-> 64 + REF_COUNTED,
     Userdata |-> 128 + REF_COUNTED + DELEGABLE,
     Closure |-> 256 + REF_COUNTED,
     Nativeclosure |-> 512 + REF_COUNTED,
     Generator |-> 1024 + REF_COUNTED,
     Userpointer |-> 2048,
     Thread |-> 4096 + REF_COUNTED,
     Funcproto |-> 8192 + REF_COUNTED,
     Class |-> 16384 + REF_COUNTED,
     Instance |-> 32768 + REF_COUNTED + DELEGABLE,
     Weakref |-> 65536 + REF_COUNTED,
     Outer |-> 131072 + REF_COUNTED]

ObjectTypes == {ObjectType[n] : n \in DOMAIN ObjectType}

\* impl From<std::io::Error> for Error: a failed read is Error::IoError
IoError == [kind |-> "io", v |-> String("UnexpectedEof")]

\* a successful read: the reader's new position and the value read
Rd(pos, v) == [kind |-> "ok", pos |-> pos, v |-> v]

\* little-endian value of a byte sequence
RECURSIVE LE(_)
LE(bs) == IF bs = <<>> THEN 0 ELSE Head(bs) + 256 * LE(Tail(bs))

\* read_u16 / read_u32 / read_u64 / read_i64 of byteorder: read_exact of n bytes
read_exact(inp, pos, n) ==
    IF pos + n <= Len(inp)
    THEN Rd(pos + n, LE(SubSeq(inp, pos + 1, pos + n)))
    ELSE IoError

\* Read::read into a buffer of n bytes: the bytes that remain, at most n
read(inp, pos, n) ==
    LET rlen == IF Len(inp) - pos < n THEN Len(inp) - pos ELSE n
    IN  Rd(pos + rlen, SubSeq(inp, pos + 1, pos + rlen))

\* the characters of the texts the streams of the model carry
Chr(b) ==
    CASE b = 46 -> "."
      [] b = 97 -> "a"
      [] b = 105 -> "i"
      [] b = 109 -> "m"
      [] b = 110 -> "n"
      [] b = 116 -> "t"
      [] b = 117 -> "u"
      [] OTHER -> "?"

\* String::from_utf8 accepts these streams' payloads unless a byte is not ASCII
valid_utf8(bs) == \A i \in 1..Len(bs) : bs[i] < 128

RECURSIVE from_utf8(_)
from_utf8(bs) == IF bs = <<>> THEN "" ELSE Chr(Head(bs)) \o from_utf8(Tail(bs))

\* read_string with a short read accepted: the buffer keeps its zero bytes
read_string_short(inp, pos) ==
    LET len == read_exact(inp, pos, 8)
    IN  IF len.kind # "ok" THEN len
        ELSE LET buf == read(inp, len.pos, len.v)
             IN  IF valid_utf8(buf.v)
                 THEN Rd(buf.pos, String(from_utf8(buf.v)))
                 ELSE Err("failed to decode utf8")

read_string(inp, pos) ==
    LET len == read_exact(inp, pos, 8)
    IN  IF len.kind # "ok" THEN len
        ELSE LET buf == read(inp, len.pos, len.v)
             IN  IF Len(buf.v) = len.v
                 THEN IF valid_utf8(buf.v)
                      THEN Rd(buf.pos, String(from_utf8(buf.v)))
                      ELSE Err("failed to decode utf8")
                 ELSE Err("could not read " \o IntToStr(len.v)
                          \o " bytes for string. Got " \o IntToStr(Len(buf.v)))

read_object(inp, pos) ==
    LET obj_type == read_exact(inp, pos, 4)
    IN  IF obj_type.kind # "ok" THEN obj_type
        ELSE IF obj_type.v = ObjectType.Integer
        THEN LET n == read_exact(inp, obj_type.pos, 8)
             IN  IF n.kind # "ok" THEN n ELSE Rd(n.pos, Integer(n.v))
        ELSE IF obj_type.v = ObjectType.Float
        THEN LET f == read_exact(inp, obj_type.pos, 4)
             IN  IF f.kind # "ok" THEN f
                 ELSE Rd(f.pos, [t |-> "Float", i |-> f.v, s |-> ""])
        ELSE IF obj_type.v = ObjectType.String
        THEN read_string(inp, obj_type.pos)
        ELSE IF obj_type.v \in ObjectTypes
        THEN Panic
        ELSE Err("failed to decode object type: " \o IntToStr(obj_type.v))

read_tag(inp, pos) ==
    LET tag == read_exact(inp, pos, 4)
    IN  IF tag.kind # "ok" THEN tag
        ELSE IF tag.v \in FileTags THEN tag
        ELSE Err("failed to map tag " \o IntToStr(tag.v))

\* expect_tag that takes any known tag for the expected one
expect_tag_known(inp, pos, rtag) ==
    LET tag == read_tag(inp, pos)
    IN  IF tag.kind # "ok" THEN tag
        ELSE Rd(tag.pos, Null)

expect_tag(inp, pos, rtag) ==
    LET tag == read_tag(inp, pos)
    IN  IF tag.kind # "ok" THEN tag
        ELSE IF tag.v = rtag THEN Rd(tag.pos, Null)
        ELSE Err("unexpected tag: " \o IntToStr(tag.v) \o " vs " \o IntToStr(rtag))

\* Instruction::read, the same reads as the loop body of the instruction section
Instruction_read(inp, pos) ==
    LET arg1 == read_exact(inp, pos, 4)
    IN  IF arg1.kind # "ok" THEN arg1
        ELSE LET buf == read(inp, arg1.pos, 4)
                 b == buf.v \o SubSeq(<<0, 0, 0, 0>>, Len(buf.v) + 1, 4)
             IN  Rd(buf.pos, [arg1 |-> arg1.v, opcode |-> b[1], arg0 |-> b[2],
                              arg2 |-> b[3], arg3 |-> b[4]])

\* one step of the loader: for a tag the tag to expect, for a loop its section,
\* for the other reads the local the value is bound to ("_" when it is dropped)
Step(op, arg) == [op |-> op, arg |-> arg]

Bound(step) == IF step.op \in {"tag", "file_tag", "loop"} THEN "_" ELSE step.arg

\* read_closure, read by read
ClosureSteps ==
    <<Step("file_tag", "BytecodeStreamTag"),
      Step("tag", "ClosurestreamHead"), Step("tag", "SizeChar"),
      Step("tag", "SizeInteger"), Step("tag", "SizeFloat"),
      Step("funcproto", "func_proto"),
      Step("tag", "ClosurestreamTail"),
      Step("closure", "_")>>

Sections ==
    <<"literals", "parameters", "outervalues", "localvarinfos", "lineinfos",
      "defaultparams", "instructions", "functions">>

\* read_funcproto, read by read; its value goes to the local `name` of the caller
FuncProtoSteps(name) ==
    <<Step("tag", "ClosurestreamPart"), Step("object", "source_name"),
      Step("object", "name"), Step("tag", "ClosurestreamPart")>>
    \o [i \in 1..Len(Sections) |-> Step("u64", "n" \o Sections[i])]
    \o [i \in 1..(2 * Len(Sections)) |->
          IF i % 2 = 1 THEN Step("tag", "ClosurestreamPart")
          ELSE Step("loop", Sections[i \div 2])]
    \o <<Step("u64", "stacksize"), Step("byte", "bgenerator"),
         Step("u64", "varparams"), Step("return", name)>>

\* one turn of the loop of a section
ItemSteps(section) ==
    CASE section \in {"literals", "parameters"} -> <<Step("object", "_")>>
      [] section = "outervalues" ->
            <<Step("u64", "_"), Step("object", "_"), Step("object", "_")>>
      [] section = "localvarinfos" ->
            <<Step("object", "_"), Step("u64", "_"), Step("u64", "_"), Step("u64", "_")>>
      [] section = "lineinfos" -> <<Step("u64", "_"), Step("u64", "_")>>
      [] section = "defaultparams" -> <<Step("u64", "_")>>
      [] section = "instructions" -> <<Step("instruction", "_")>>
      [] section = "functions" -> <<Step("funcproto", "_")>>

RECURSIVE LoopSteps(_, _)
LoopSteps(section, n) ==
    IF n = 0 THEN <<>> ELSE ItemSteps(section) \o LoopSteps(section, n - 1)

\* let name = value
Let(locals, name, v) ==
    IF name = "_" THEN locals
    ELSE [x \in DOMAIN locals \cup {name} |-> IF x = name THEN v ELSE locals[x]]

(***************************************************************************)
(* Bytecode streams.  A stream is written as its fields, each with the     *)
(* kind of thing it holds, so that a stream can be cut or have one field   *)
(* replaced.                                                               *)
(***************************************************************************)
Fld(k, bs) == [k |-> k, bytes |-> bs]

RECURSIVE LEBytes(_, _)
LEBytes(v, n) == IF n = 0 THEN <<>> ELSE <<v % 256>> \o LEBytes(v \div 256, n - 1)

RECURSIVE Flatten(_)
Flatten(ss) == IF ss = <<>> THEN <<>> ELSE Head(ss) \o Flatten(Tail(ss))

Ord(c) ==
    CASE c = "." -> 46
      [] c = "a" -> 97
      [] c = "i" -> 105
      [] c = "m" -> 109
      [] c = "n" -> 110
      [] c = "t" -> 116
      [] c = "u" -> 117

RECURSIVE Text(_)
Text(cs) == IF cs = <<>> THEN "" ELSE Head(cs) \o Text(Tail(cs))

TagFld(tag) == Fld("tag", LEBytes(tag, 4))
U64Fld(k, v) == Fld(k, LEBytes(v, 8))

\* an object on disk: u32 type tag, then the payload
ObjectFlds(o) ==
    IF o.t = "String"
    THEN <<Fld("type", LEBytes(ObjectType.String, 4)),
           U64Fld("len", Len(o.chars)),
           Fld("payload", [i \in 1..Len(o.chars) |-> Ord(o.chars[i])])>>
    ELSE <<Fld("type", LEBytes(ObjectType.Integer, 4)), U64Fld("i64", o.i)>>

\* an instruction on disk: arg1 as u32, then opcode, arg0, arg2, arg3
InstructionFlds(ins) ==
    <<Fld("instr", LEBytes(ins.arg1, 4)),
      Fld("instr", <<ins.opcode, ins.arg0, ins.arg2, ins.arg3>>)>>

RECURSIVE FuncProtoFlds(_)
FuncProtoFlds(d) ==
    <<TagFld(ClosurestreamPart)>>
    \o ObjectFlds(d.source_name) \o ObjectFlds(d.name)
    \o <<TagFld(ClosurestreamPart),
         U64Fld("count", Len(d.literals)), U64Fld("count", Len(d.parameters)),
         U64Fld("count", Len(d.outervalues)), U64Fld("count", Len(d.localvarinfos)),
         U64Fld("count", Len(d.lineinfos)), U64Fld("count", Len(d.defaultparams)),
         U64Fld("count", Len(d.instructions)), U64Fld("count", Len(d.functions))>>
    \o <<TagFld(ClosurestreamPart)>>
    \o Flatten([i \in 1..Len(d.literals) |-> ObjectFlds(d.literals[i])])
    \o <<TagFld(ClosurestreamPart)>>
    \o Flatten([i \in 1..Len(d.parameters) |-> ObjectFlds(d.parameters[i])])
    \o <<TagFld(ClosurestreamPart)>>
    \o Flatten([i \in 1..Len(d.outervalues) |->
                  <<U64Fld("u64", d.outervalues[i].ovtype)>>
                  \o ObjectFlds(d.outervalues[i].o)
                  \o ObjectFlds(d.outervalues[i].name)])
    \o <<TagFld(ClosurestreamPart)>>
    \o Flatten([i \in 1..Len(d.localvarinfos) |->
                  ObjectFlds(d.localvarinfos[i].name)
                  \o <<U64Fld("u64", d.localvarinfos[i].pos),
                       U64Fld("u64", d.localvarinfos[i].start_op),
                       U64Fld("u64", d.localvarinfos[i].end_op)>>])
    \o <<TagFld(ClosurestreamPart)>>
    \o Flatten([i \in 1..Len(d.lineinfos) |->
                  <<U64Fld("u64", d.lineinfos[i].line),
                    U64Fld("u64", d.lineinfos[i].op)>>])
    \o <<TagFld(ClosurestreamPart)>>
    \o [i \in 1..Len(d.defaultparams) |-> U64Fld("u64", d.defaultparams[i])]
    \o <<TagFld(ClosurestreamPart)>>
    \o Flatten([i \in 1..Len(d.instructions) |-> InstructionFlds(d.instructions[i])])
    \o <<TagFld(ClosurestreamPart)>>
    \o Flatten([i \in 1..Len(d.functions) |-> FuncProtoFlds(d.functions[i])])
    \o <<U64Fld("stacksize", d.stacksize), Fld("bgenerator", <<d.bgenerator>>),
         U64Fld("varparams", d.varparams)>>

ClosureFlds(d) ==
    <<Fld("head", LEBytes(BytecodeStreamTag, 2)),
      TagFld(ClosurestreamHead), TagFld(SizeChar), TagFld(SizeInteger),
      TagFld(SizeFloat)>>
    \o FuncProtoFlds(d)
    \o <<TagFld(ClosurestreamTail)>>

StreamOf(flds) == Flatten([i \in 1..Len(flds) |-> flds[i].bytes])

\* the number of the field that holds byte n of the stream
RECURSIVE FldAt(_, _, _)
FldAt(flds, n, i) ==
    IF n <= Len(flds[i].bytes) THEN i ELSE FldAt(flds, n - Len(flds[i].bytes), i + 1)

StrObj(cs) == [t |-> "String", chars |-> cs, i |-> 0]
IntObj(n) == [t |-> "Integer", chars |-> <<>>, i |-> n]

\* n instruction records: LOADINT R1, 111 (opcode 0x02) and last RETURN R1, R1
\* (opcode 0x17)
DiskInstructions(n) ==
    [i \in 1..n |->
        IF i < n THEN [arg1 |-> 111, opcode |-> 2, arg0 |-> 1, arg2 |-> 0, arg3 |-> 0]
        ELSE [arg1 |-> 1, opcode |-> 23, arg0 |-> 1, arg2 |-> 0, arg3 |-> 0]]

\* a prototype with nothing but its names and n instructions
LeafProto(nm, n) ==
    [source_name |-> StrObj(<<"a", ".", "n", "u", "t">>), name |-> StrObj(nm),
     literals |-> <<>>, parameters |-> <<>>, outervalues |-> <<>>,
     localvarinfos |-> <<>>, lineinfos |-> <<>>, defaultparams |-> <<>>,
     instructions |-> DiskInstructions(n), functions |-> <<>>,
     stacksize |-> 2, bgenerator |-> 0, varparams |-> 0]

\* a prototype with an entry in every section
FullProto ==
    [LeafProto(<<"m", "a", "i", "n">>, 2) EXCEPT
        !.literals = <<IntObj(7), StrObj(<<"a">>)>>,
        !.parameters = <<StrObj(<<"t">>)>>,
        !.outervalues = <<[ovtype |-> 1, o |-> IntObj(0), name |-> StrObj(<<"u">>)] >>,
        !.localvarinfos = <<[name |-> StrObj(<<"i">>), pos |-> 1, start_op |-> 0,
                             end_op |-> 2] >>,
        !.lineinfos = << [line |-> 1, op |-> 0] >>,
        !.defaultparams = <<1>>,
        !.functions = <<LeafProto(<<"n">>, 1)>>]

DiskProtos ==
    {LeafProto(<<"m", "a", "i", "n">>, n) : n \in 0..MaxInstructions} \cup {FullProto}

\* the ways a stream of the model is made from a prototype: as the format says,
\* cut after `at` bytes, or with field `at` holding v (for a tag, any other tag
\* or 7, which is no tag; for an object type, Null's or 3, which is no type;
\* for a text, the byte 255 first)
Made(kind, d, at, v) == [kind |-> kind, desc |-> d, at |-> at, v |-> v]

FldsOfKind(flds, k) == {i \in 1..Len(flds) : flds[i].k = k}

Makes(d) ==
    LET flds == ClosureFlds(d)
    IN  {Made("wellformed", d, 0, 0)}
        \cup {Made("truncated", d, n, 0) : n \in 0..(Len(StreamOf(flds)) - 1)}
        \cup {Made("head", d, 1, v) : v \in {0, SizeChar}}
        \cup {m \in {Made("tag", d, i, v) : i \in FldsOfKind(flds, "tag"),
                                           v \in FileTags \cup {7}} :
                 LEBytes(m.v, 4) # flds[m.at].bytes}
        \cup {Made("type", d, i, v) : i \in FldsOfKind(flds, "type"),
                                      v \in {3, ObjectType.Null}}
        \cup {Made("utf8", d, i, 255) : i \in FldsOfKind(flds, "payload")}

InputOf(m) ==
    LET flds == ClosureFlds(m.desc)
        with(bs) == StreamOf([flds EXCEPT ![m.at].bytes = bs])
    IN  CASE m.kind = "wellformed" -> StreamOf(flds)
          [] m.kind = "truncated" -> SubSeq(StreamOf(flds), 1, m.at)
          [] m.kind = "head" -> with(LEBytes(m.v, 2))
          [] m.kind \in {"tag", "type"} -> with(LEBytes(m.v, 4))
          [] m.kind = "utf8" -> with([flds[m.at].bytes EXCEPT ![1] = m.v])

(***************************************************************************)
(* The front-end opens the file and loads it (examples/executor.rs).  ld   *)
(* holds the stream, how far it is read, the reads still to do and the     *)
(* locals of the read_closure and read_funcproto calls that are running,   *)
(* innermost first.                                                        *)
(***************************************************************************)
InitLoader ==
    /\ protos = ProgNoReturn
    /\ stack = EmptyStack
    /\ frame = StackFrame(1, 1)
    /\ callstack = <<>>
    /\ heap = << TableObj({}) >>
    /\ op_count = [o \in Opcodes |-> 0]
    /\ pc = "embed"
    /\ result = NoResult
    /\ last = NoStep
    /\ entry = [frame |-> StackFrame(1, 1), depth |-> 0, root |-> FALSE,
                fresh |-> FALSE, op_count |-> [o \in Opcodes |-> 0]]
    /\ ghost = [native_calls |-> 0, native_frame |-> StackFrame(0, 0),
                pending |-> <<>>, slots |-> {}]
    /\ \E d \in DiskProtos : \E m \in Makes(d) :
          ld = [input |-> InputOf(m), made |-> m, state |-> "loading", pos |-> 0,
                steps |-> ClosureSteps, locals |-> << <<>> >>,
                result |-> [kind |-> "none"]]

NextStep(op) ==
    /\ ld.state = "loading"
    /\ Head(ld.steps).op = op

\* the `?` after a read: an error is the loader's result, else the read is bound
\* and the loader goes on
Try(r) ==
    /\ ld' = IF r.kind # "ok"
             THEN [ld EXCEPT !.state = "loaded", !.result = r]
             ELSE [ld EXCEPT !.pos = r.pos, !.steps = Tail(@),
                             !.locals[1] = Let(@, Bound(Head(ld.steps)), r.v)]
    /\ UNCHANGED vm_vars

\* let file_tag = rdr.read_u16()?; match from_u16(file_tag)
ReadFileTag ==
    /\ NextStep("file_tag")
    /\ LET file_tag == read_exact(ld.input, ld.pos, 2)
       IN  IF file_tag.kind = "ok" /\ file_tag.v # BytecodeStreamTag
           THEN Try(Err("missing bytecode stream tag"))
           ELSE Try(file_tag)

\* expect_tag(rdr, tag)?
ExpectTag ==
    /\ NextStep("tag")
    /\ Try(expect_tag(ld.input, ld.pos, FileTag[Head(ld.steps).arg]))

\* let name = read_object(rdr)?
ReadObject ==
    /\ NextStep("object")
    /\ Try(read_object(ld.input, ld.pos))

\* let name = rdr.read_u64::<LittleEndian>()?
ReadU64 ==
    /\ NextStep("u64")
    /\ Try(read_exact(ld.input, ld.pos, 8))

\* rdr.read(&mut bgenerator)?
ReadByte ==
    /\ NextStep("byte")
    /\ Try(read(ld.input, ld.pos, 1))

\* the body of the loop of the instruction section
ReadInstruction ==
    /\ NextStep("instruction")
    /\ Try(Instruction_read(ld.input, ld.pos))

\* for _i in 0..n: the turns of the loop of a section
EnterLoop ==
    /\ NextStep("loop")
    /\ ld' = [ld EXCEPT !.steps =
                LoopSteps(Head(ld.steps).arg, ld.locals[1]["n" \o Head(ld.steps).arg])
                \o Tail(@)]
    /\ UNCHANGED vm_vars

\* a call of read_funcproto
CallFuncProto ==
    /\ NextStep("funcproto")
    /\ ld' = [ld EXCEPT !.steps = FuncProtoSteps(Head(ld.steps).arg) \o Tail(@),
                        !.locals = << <<>> >> \o @]
    /\ UNCHANGED vm_vars

\* Ok(Object::FuncProto(Rc::new(obj))), obj being
\* object::FuncProto { source_name, name }
ReturnFuncProto ==
    /\ NextStep("return")
    /\ ld' = [ld EXCEPT
                !.steps = Tail(@),
                !.locals = [Tail(@) EXCEPT ![1] =
                              Let(@, Head(ld.steps).arg,
                                  [t |-> "FuncProto",
                                   source_name |-> ld.locals[1].source_name,
                                   name |-> ld.locals[1].name])]]
    /\ UNCHANGED vm_vars

\* Ok(Object::Closure(Rc::new(object::Closure { func_proto })))
ReturnClosure ==
    /\ NextStep("closure")
    /\ ld' = [ld EXCEPT !.state = "loaded", !.steps = Tail(@),
                        !.result = Ok([t |-> "Closure",
                                       func_proto |-> ld.locals[1].func_proto])]
    /\ UNCHANGED vm_vars

NextLoader ==
    \/ ReadFileTag
    \/ ExpectTag
    \/ ReadObject
    \/ ReadU64
    \/ ReadByte
    \/ ReadInstruction
    \/ EnterLoop
    \/ CallFuncProto
    \/ ReturnFuncProto
    \/ ReturnClosure

SpecLoader == InitLoader /\ [][NextLoader]_vars

(***************************************************************************)
(* Properties.  `last` is the state before the last call, execute or       *)
(* instruction, so a state predicate can relate the two ends of a step.    *)
(***************************************************************************)
ExecOk == pc = "embed" /\ result.api = "execute" /\ result.kind = "ok"

LastCi == last.callstack[Len(last.callstack)]

LastFunc == protos[LastCi.closure.i]

LastR(pos) == SlotGet(last.stack, last.frame.base + pos)

\* the value the RETURN that was the last step left its frame with
LastRetval == IF last.instr.arg0 = NoTarget THEN Null ELSE LastR(last.instr.arg1)

\* RETURNs and CALLs fetched since execute() entered its loop
Returns == op_count["RETURN"] - entry.op_count["RETURN"]
Calls == op_count["CALL"] - entry.op_count["CALL"]

RootCount == Cardinality({k \in 1 .. Depth : callstack[k].root})

\* the embedder sequence push(closure); push_roottable(); call(1); execute()
ExampleRun ==
    /\ SlotGet(stack, 1) = Closure(TopProto)
    /\ SlotGet(stack, 2) = Table(RootRef)
    /\ entry.frame.base = 2
    /\ entry.fresh

\* C1: a RETURN in the root frame ends execute() with Ok(v), v = R[arg1], or Null
\* when arg0 is 0xFF; the loop is left with ip just past the RETURN; the constant
\* return program yields Integer 111.
C1_RootReturn ==
    (last.op = "RETURN" /\ LastCi.root) =>
        /\ pc = "embed"
        /\ result = ApiResult("execute", Ok(LastRetval))
        /\ ci.ip = LastCi.ip + 1
        /\ Depth = Len(last.callstack)
        /\ (protos = ProgConst(111, 1) => result.v = Integer(111))

C1_Witness ==
    /\ last.op = "RETURN" /\ LastCi.root
    /\ ExampleRun
    /\ protos = ProgConst(111, 1)
    /\ result.v = Integer(111)

\* C2: a RETURN in a non-root frame restores the frame saved at the CALL that
\* entered it, pops one call-info, writes the value to the caller's register arg0
\* of that CALL (no register when arg0 is 0xFF) and resumes after the CALL.
C2_NonRootReturn ==
    (last.op = "RETURN" /\ ~LastCi.root) =>
        /\ last.pending # <<>>
        /\ LET c == last.pending[Len(last.pending)] IN
              /\ pc = "exec"
              /\ frame = c.frame
              /\ Depth = Len(last.callstack) - 1
              /\ ci.closure = c.closure
              /\ ci.ip = c.at + 1
              /\ IF c.instr.arg0 = NoTarget
                 THEN stack = last.stack
                 ELSE /\ SlotGet(stack, c.frame.base + c.instr.arg0) = LastRetval
                      /\ \A k \in (DOMAIN stack) \cup (DOMAIN last.stack) :
                            k # c.frame.base + c.instr.arg0
                                => SlotGet(stack, k) = SlotGet(last.stack, k)

C2_Witness ==
    /\ last.op = "RETURN" /\ ~LastCi.root
    /\ last.pending[Len(last.pending)].instr.arg0 # NoTarget
    /\ LastRetval = Integer(42)
    /\ op_count["TAILCALL"] > 0
    /\ frame # last.frame

\* C3: call(num_params) with the stack top at T and a closure of stacksize S at
\* T-(num_params+1) pushes one call-info, root, ip = 0, and leaves the frame
\* {base: T-num_params, top: T-num_params+S}.
C3_CallFrame ==
    (last.op = "call" /\ result.kind = "ok") =>
        LET T == last.frame.top
            n == last.instr.arg1
            S == protos[SlotGet(last.stack, T - (n + 1)).i].stacksize
        IN /\ Depth = Len(last.callstack) + 1
           /\ ci.root
           /\ ci.ip = 0
           /\ frame = StackFrame(T - n, T - n + S)

\* C4 (as claimed): after call(num_params) register 0 holds the callable and
\* registers 1..num_params the arguments in push order.
C4_CallableAtR0 ==
    (last.op = "call" /\ result.kind = "ok") =>
        LET T == last.frame.top
            n == last.instr.arg1
        IN /\ value(stack, frame, 0) = SlotGet(last.stack, T - (n + 1))
           /\ \A k \in 1 .. n : value(stack, frame, k) = SlotGet(last.stack, T - n + k - 1)

\* C4 (amended): after call(num_params) registers 0..num_params-1 of the root
\* frame hold the arguments in push order and the callable sits in the slot
\* below the frame's base.
C4_ArgsFromR0 ==
    (last.op = "call" /\ result.kind = "ok") =>
        LET T == last.frame.top
            n == last.instr.arg1
        IN /\ SlotGet(stack, frame.base - 1) = SlotGet(last.stack, T - (n + 1))
           /\ SlotGet(stack, frame.base - 1) = ci.closure
           /\ \A k \in 0 .. (n - 1) : value(stack, frame, k) = SlotGet(last.stack, T - n + k)

C4_Witness ==
    /\ last.op = "call" /\ result.kind = "ok"
    /\ last.instr.arg1 = 2
    /\ value(stack, frame, 0) = Table(RootRef)
    /\ value(stack, frame, 1) = Closure(TopProto)

\* C5: at every instruction boundary base <= top <= capacity and
\* top - base <= stacksize of the prototype that is executing.
C5_StackInvariant ==
    pc = "exec" =>
        /\ frame.base <= frame.top
        /\ frame.top <= Capacity
        /\ frame.top - frame.base <= func.stacksize

\* C6 (as claimed): when execute() returns Ok, RETURNs executed = CALLs executed + 1.
C6_ReturnsEqualCalls == (ExecOk /\ entry.fresh) => Returns = Calls + 1

\* C6 (amended): when an execute() that follows a call() returns Ok, the RETURNs
\* executed equal the CALLs that invoked a closure, plus one; a CALL that
\* invoked a native closure executes no RETURN.
C6_ReturnsEqualClosureCalls ==
    (ExecOk /\ entry.fresh) => Returns = (Calls - ghost.native_calls) + 1

C6_Witness ==
    /\ ExecOk /\ entry.fresh
    /\ ghost.native_calls > 0
    /\ Calls > ghost.native_calls

\* C7: when execute() returns Ok the frame is the root frame that was current
\* when execute() was entered.
C7_FrameAtReturn == (ExecOk /\ entry.root) => frame = entry.frame

C7_Witness ==
    /\ ExecOk /\ entry.root
    /\ frame = entry.frame
    /\ ghost.native_calls > 0
    /\ Calls > ghost.native_calls

\* C8 (as claimed): after execute() returns Ok the call-info of the root frame is
\* gone: the call-info sequence is as long as before call().
C8_RootPopped == (ExecOk /\ entry.fresh) => Depth = entry.depth - 1

\* C8 (amended): every non-root call-info is popped when its invocation returns;
\* the root's is not: after execute() returns Ok the call-info sequence is as
\* long as at the entry of execute() and the root's call-info is its last.
C8_RootKept ==
    /\ (last.op = "RETURN" /\ ~LastCi.root /\ pc # "abort")
            => Depth = Len(last.callstack) - 1
    /\ (ExecOk /\ entry.root) => (Depth = entry.depth /\ ci.root)

C8_Witness ==
    /\ ExecOk /\ entry.fresh
    /\ Returns > 1
    /\ Depth = entry.depth
    /\ ci.root

\* C9: TAILCALL leaves the call-info sequence as long as it was, so the self
\* tail-recursive function called from the root frame keeps the depth at most
\* one above the root call-infos (2 after one call()).
C9_TailcallDepth ==
    /\ (last.op = "TAILCALL" => Depth = Len(last.callstack))
    /\ (protos \in {ProgTail(n) : n \in 0 .. MaxDepth} => Depth <= RootCount + 1)

C9_Witness ==
    /\ last.op = "TAILCALL"
    /\ protos = ProgTail(MaxDepth)
    /\ op_count["TAILCALL"] = MaxDepth
    /\ RootCount = 1
    /\ Depth = 2

\* C10: a GETK with a literal equal to the key of the latest NEWSLOT on that
\* table succeeds and yields the value that NEWSLOT stored, whichever register
\* references the table; the table round trip returns Integer 7.
C10_GetkAfterNewslot ==
    /\ (last.op = "GETK" /\ LastR(last.instr.arg2).t = "Table") =>
          \A e \in ghost.slots :
              (e.ref = LastR(last.instr.arg2).i
                   /\ e.k = LastFunc.literals[last.instr.arg1 + 1])
                  => (pc = "exec" /\ value(stack, frame, last.instr.arg0) = e.v)
    /\ (ExecOk /\ protos = ProgTable("new", "str", "none", 0)) => result.v = Integer(7)

C10_Witness ==
    /\ last.op = "GETK"
    /\ LastR(last.instr.arg2) = Table(RootRef)
    /\ last.instr.arg2 = 0
    /\ [ref |-> RootRef, k |-> Bool(TRUE), v |-> Integer(8)] \in ghost.slots
    /\ LastFunc.literals[last.instr.arg1 + 1] = Bool(TRUE)
    /\ value(stack, frame, last.instr.arg0) = Integer(8)

\* the table or array and the key of the lookup that was the last step
LastObj == LastR(last.instr.arg2)

LastKey ==
    IF last.op = "PREPCALL" THEN LastR(last.instr.arg1)
    ELSE LastFunc.literals[last.instr.arg1 + 1]

ExecErr == pc = "embed" /\ result.api = "execute" /\ result.kind = "err"

\* C11: GETK, PREPCALL and PREPCALLK on a table that has no entry for the key
\* make execute() return a RuntimeError and leave the registers as they were.
C11_MissingKey ==
    (/\ last.op \in {"GETK", "PREPCALL", "PREPCALLK"}
     /\ LastObj.t = "Table"
     /\ ~\E e \in last.heap[LastObj.i].map : e.k = LastKey)
        => (ExecErr /\ stack = last.stack)

\* the same on the keys that have a hash (Integer, Bool, String)
C11_MissingHashableKey ==
    (/\ last.op \in {"GETK", "PREPCALL", "PREPCALLK"}
     /\ LastObj.t = "Table"
     /\ LastKey.t \in {"Integer", "Bool", "String"}
     /\ ~\E e \in last.heap[LastObj.i].map : e.k = LastKey)
        => (ExecErr /\ stack = last.stack)

\* C12: on an array, the key "len" yields the number of elements appended so
\* far, an Integer key i yields element i when 0 <= i < n and a RuntimeError
\* otherwise, and any other String key is a RuntimeError.
C12_ArrayGet ==
    (last.op \in {"GETK", "PREPCALL", "PREPCALLK"} /\ LastObj.t = "Array") =>
        LET a == last.heap[LastObj.i].array
            k == LastKey
            appended == op_count["APPENDARRAY"] - entry.op_count["APPENDARRAY"]
        IN /\ (protos \in {ProgArray(n, l) : n \in 0 .. 2, l \in 0 .. 5})
                  => Len(a) = appended
           /\ (k = String("len"))
                  => (pc = "exec" /\ value(stack, frame, last.instr.arg0) = Integer(Len(a)))
           /\ (k.t = "Integer" /\ k.i >= 0 /\ k.i < Len(a))
                  => (pc = "exec" /\ value(stack, frame, last.instr.arg0) = a[k.i + 1])
           /\ (k.t = "Integer" /\ (k.i < 0 \/ k.i >= Len(a)))
                  => (ExecErr /\ stack = last.stack)
           /\ (k.t = "String" /\ k.s # "len") => (ExecErr /\ stack = last.stack)

C12_Witness ==
    /\ last.op = "GETK" /\ LastObj.t = "Array"
    /\ Len(last.heap[LastObj.i].array) = 2
    /\ LastKey = Integer(1)
    /\ value(stack, frame, last.instr.arg0) = String("size")
    /\ op_count["APPENDARRAY"] = 2

\* C13: JZ goes on with the next instruction exactly when R[arg0] is Bool(true),
\* a non-zero Integer or any String; it adds arg1 to ip when R[arg0] is
\* Bool(false), Integer(0) or Null; on every other variant it fails with a
\* RuntimeError; it never writes a register.
C13_JzTruthiness ==
    (last.op = "JZ") =>
        LET c == LastR(last.instr.arg0) IN
           /\ stack = last.stack
           /\ heap = last.heap
           /\ frame = last.frame
           /\ (c = Bool(TRUE) \/ (c.t = "Integer" /\ c.i # 0) \/ c.t = "String")
                  => (pc = "exec" /\ ci.ip = LastCi.ip + 1)
           /\ (c = Bool(FALSE) \/ c = Integer(0) \/ c = Null)
                  => (pc = "exec" /\ ci.ip = LastCi.ip + 1 + last.instr.arg1)
           /\ (c.t \notin {"Bool", "Integer", "String", "Null"}) => ExecErr
           /\ (pc = "exec" /\ ci.ip = LastCi.ip + 1)
                  => (c = Bool(TRUE) \/ (c.t = "Integer" /\ c.i # 0) \/ c.t = "String")

C13_Witness ==
    /\ last.op = "JZ"
    /\ LastR(last.instr.arg0) = String("")
    /\ pc = "exec"
    /\ ci.ip = LastCi.ip + 1
    /\ last.instr.arg1 = 2

\* the arithmetic programs, and their registers once execute() has returned Ok:
\* R1 = a, R2 = b, R3 = ADD(a, b), R4 = SUB(ADD(a, b), b)
AddSubDone ==
    /\ ExecOk
    /\ entry.fresh
    /\ protos \in {ProgAddSub(x, y, z) : x \in {0, 7}, y \in {0, 3}, z \in {0, 7}}

C15_UnhandledOpcode ==
    (last.op \in Unimplemented \cup UnknownOpcodes) =>
        /\ ExecErr
        /\ result.v = String("unhandled opcode: " \o InstrDebug(last.instr))
        /\ stack = last.stack

\* the same on the opcodes of the enumeration
C15_UnimplementedOpcode ==
    (last.op \in Unimplemented) =>
        /\ ExecErr
        /\ result.v = String("unhandled opcode: " \o InstrDebug(last.instr))
        /\ stack = last.stack

\* C19: execute() with an empty call-info sequence returns a RuntimeError and
\* leaves the frame, the stack contents and the call-info sequence as they were.
C19_ExecuteEmpty ==
    (last.op = "execute" /\ last.callstack = <<>>) =>
        /\ pc = "embed"
        /\ result = ApiResult("execute", Err("callstack empty"))
        /\ stack = last.stack
        /\ frame = last.frame
        /\ heap = last.heap
        /\ callstack = <<>>

C19_Witness ==
    /\ last.op = "execute" /\ last.callstack = <<>>
    /\ result.kind = "err"
    /\ frame = StackFrame(1, 3)
    /\ SlotGet(stack, 2) = Table(RootRef)

\* a CALL on a native closure was the last step, and the native did not panic
NativeCalled ==
    /\ last.op = "CALL"
    /\ LastR(last.instr.arg1).t = "NativeClosure"
    /\ pc # "abort"

\* the frame the claim gives the native: {base: caller base + arg2, top: base + nargs}
ClaimedNativeFrame ==
    StackFrame(last.frame.base + last.instr.arg2,
               last.frame.base + last.instr.arg2 + LastR(last.instr.arg1).i)

\* C20 (as claimed): a CALL on a native closure invokes it with the frame
\* {caller base + arg2, that base + nargs}, pushes no call-info, never writes the
\* target register (a value the native pushed is discarded), and leaves the
\* caller's frame as it was, execution going on at the next instruction.
C20_NativeCallTargetKept ==
    NativeCalled =>
        /\ ghost.native_frame = ClaimedNativeFrame
        /\ Depth = Len(last.callstack)
        /\ frame = last.frame
        /\ pc = "exec"
        /\ ci.ip = LastCi.ip + 1
        /\ (last.instr.arg0 # NoTarget)
              => value(stack, frame, last.instr.arg0) = LastR(last.instr.arg0)

\* C20 (amended): the interpreter writes no register for the CALL: the stack
\* after it is the stack the native left, so a value the native pushed stays
\* in the slot at the top of the native's frame (the caller's register
\* arg2 + nargs, which is the target register when arg0 = arg2 + nargs) and
\* every other slot is as before; the rest is as claimed.
C20_NativeCall ==
    NativeCalled =>
        /\ ghost.native_frame = ClaimedNativeFrame
        /\ Depth = Len(last.callstack)
        /\ callstack = [last.callstack EXCEPT ![Len(last.callstack)].ip = @ + 1]
        /\ frame = last.frame
        /\ heap = last.heap
        /\ pc = "exec"
        /\ \A k \in (DOMAIN stack) \cup (DOMAIN last.stack) :
              k # ClaimedNativeFrame.top => SlotGet(stack, k) = SlotGet(last.stack, k)
        /\ (LastR(last.instr.arg1).s = "print") => stack = last.stack
        /\ (last.instr.arg0 # NoTarget
                /\ last.instr.arg0 # last.instr.arg2 + LastR(last.instr.arg1).i)
              => value(stack, frame, last.instr.arg0) = LastR(last.instr.arg0)

C20_Witness ==
    /\ NativeCalled
    /\ LastR(last.instr.arg1).s = "push"
    /\ last.instr.arg0 = 4
    /\ LastR(4) = Null
    /\ value(stack, frame, 4) = Integer(99)
    /\ frame = last.frame

(***************************************************************************)
(* The loader's claims are about a stream the loader is done with.         *)
(***************************************************************************)
Loaded == ld.state = "loaded"

MadeFlds == ClosureFlds(ld.made.desc)

\* the number of bytes of the stream before its field i
RECURSIVE Offset(_, _)
Offset(flds, i) == IF i = 1 THEN 0 ELSE Offset(flds, i - 1) + Len(flds[i - 1].bytes)

\* the field of the first byte a cut stream lacks
CutFld == MadeFlds[FldAt(MadeFlds, ld.made.at + 1, 1)]

\* the instruction sequence the loaded prototype carries
LoadedInstructions(fp) ==
    IF "instructions" \in DOMAIN fp THEN fp.instructions ELSE <<>>

\* C16: read_closure returns Ok only for a stream that holds the head, the
\* tags and the sections in the order of the format; a stream in which one
\* tag, at any place, is replaced by a value that is no tag or by another
\* tag makes it return a RuntimeError, read no further, and return no closure.
C16_TagOrder ==
    Loaded =>
        /\ ld.result.kind = "ok" => ld.made.kind = "wellformed"
        /\ ld.made.kind \in {"head", "tag"} =>
              /\ ld.result.kind = "err"
              /\ ld.pos = Offset(MadeFlds, ld.made.at)

C16_Witness ==
    /\ Loaded
    /\ ld.made.kind = "tag"
    /\ ld.made.v = ClosurestreamTail
    /\ MadeFlds[ld.made.at].bytes = LEBytes(ClosurestreamPart, 4)
    /\ Len(ld.locals) = 3
    /\ ld.result.kind = "err"

\* C17 as stated: a stream that ends early at any byte makes the loader
\* return a RuntimeError.
C17_TruncatedRuntimeError ==
    (Loaded /\ ld.made.kind = "truncated") => ld.result.kind = "err"

\* C17: a stream that ends early at any byte never loads: the loader
\* returns a RuntimeError when the stream ends in the bytes of a text whose
\* length was read, and an IoError when it ends anywhere else.
C17_TruncatedFails ==
    (Loaded /\ ld.made.kind = "truncated") =>
        ld.result.kind = IF CutFld.k = "payload" THEN "err" ELSE "io"

C17_Witness ==
    /\ Loaded
    /\ ld.made.kind = "truncated"
    /\ CutFld.k = "instr"
    /\ Len(CutFld.bytes) = 4
    /\ ld.made.at = Offset(MadeFlds, FldAt(MadeFlds, ld.made.at + 1, 1)) + 2
    /\ ld.result.kind = "io"

\* C18: for a well-formed stream the loaded closure wraps a prototype whose
\* source_name and name are the two texts at the head of the top-level
\* prototype and whose instructions are the records of the stream, in order.
C18_LoaderIdentity ==
    (Loaded /\ ld.made.kind = "wellformed") =>
        /\ ld.result.kind = "ok"
        /\ ld.result.v.func_proto.source_name = String(Text(ld.made.desc.source_name.chars))
        /\ ld.result.v.func_proto.name = String(Text(ld.made.desc.name.chars))
        /\ LoadedInstructions(ld.result.v.func_proto) = ld.made.desc.instructions

\* C18, the names alone
C18_LoadedNames ==
    (Loaded /\ ld.made.kind = "wellformed") =>
        /\ ld.result.kind = "ok"
        /\ ld.result.v.func_proto.source_name = String(Text(ld.made.desc.source_name.chars))
        /\ ld.result.v.func_proto.name = String(Text(ld.made.desc.name.chars))

(***************************************************************************)
(* The root table, jumps, comparisons and iteration (SpecC); tail-call     *)
(* arguments, clones and equality (SpecD).                                 *)
(***************************************************************************)
\* C21: push_roottable() and LOADROOT hand out references to one root table:
\* as long as no other table was created every table on the stack is that
\* table, and a GETK or PREPCALLK through any reference to it, in any frame,
\* yields the entry the latest NEWSLOT or add_native_func stored for the key.
C21_RootShared ==
    /\ (last.op = "LOADROOT" /\ pc = "exec") =>
          value(stack, frame, last.instr.arg0) = Table(RootRef)
    /\ (op_count["NEWOBJ"] = 0 /\ op_count["CLONE"] = 0) =>
          \A j \in DOMAIN stack : stack[j].t = "Table" => stack[j] = Table(RootRef)
    /\ (last.op \in {"GETK", "PREPCALLK"} /\ LastObj = Table(RootRef)) =>
          \A e \in ghost.slots :
              (e.ref = RootRef /\ e.k = LastKey)
                  => (pc = "exec" /\ value(stack, frame, last.instr.arg0) = e.v)

\* the called function reads through its own LOADROOT what main stored, and
\* then the native the embedder registered
C21_Witness ==
    /\ protos = ProgRoot("print")
    /\ last.op = "PREPCALLK"
    /\ Len(last.callstack) = 2
    /\ LastObj = Table(RootRef)
    /\ LastR(2) = Integer(7)
    /\ SlotGet(last.stack, 2) = Table(RootRef)
    /\ value(stack, frame, last.instr.arg0) = native_closure("print")
    /\ [ref |-> RootRef, k |-> String("y"), v |-> Integer(7)] \in ghost.slots

\* C22: when an instruction of a function fails with a RuntimeError, execute()
\* returns with the call stack as deep as before the instruction and the last
\* call-info still on that function's closure, ip one past the instruction, so
\* that print_state() names the function.
C22_ErrorKeepsCallInfo ==
    (ExecErr /\ last.op \in Opcodes) =>
        /\ Depth = Len(last.callstack)
        /\ ci.closure = LastCi.closure
        /\ ci.ip = LastCi.ip + 1

\* C23: LOADINT reads arg1 as a signed number: the register holds
\* Integer(-1) after a LOADINT whose arg1 has every bit set.
C23_LoadintSigned ==
    (last.op = "LOADINT" /\ pc = "exec") =>
        value(stack, frame, last.instr.arg0) = Integer(Signed(last.instr.arg1))

\* a run of execute() on a frame a successful call() set up has ended
FreshRunEnded ==
    /\ entry.fresh
    /\ pc # "exec"
    /\ result.api = "execute"
    /\ last.op # "execute"

\* C24: jump offsets are signed: a JMP with offset -d continues at
\* (index + 1) - d, as do a taken JCMP and the exit of a FOREACH, and the
\* iterative factorial of 5, which loops by a backward JMP, returns Integer 120.
C24_SignedJumps ==
    /\ (last.op = "JMP" /\ pc = "exec") =>
          ci.ip = LastCi.ip + 1 + Signed(last.instr.arg1)
    /\ (last.op = "JCMP" /\ pc = "exec") =>
          ci.ip \in {LastCi.ip + 1, LastCi.ip + 1 + Signed(last.instr.arg1)}
    /\ (last.op = "FOREACH" /\ pc = "exec") =>
          ci.ip \in {LastCi.ip + 2, LastCi.ip + 1 + Signed(last.instr.arg1)}
    /\ (protos = ProgFactorial(5) /\ FreshRunEnded) =>
          (ExecOk /\ result.v = Integer(120))

\* the relation a selector of JCMP names
Holds(op, a, b) ==
    CASE op = CompOp.G -> a > b
      [] op = CompOp.GE -> a >= b
      [] op = CompOp.L -> a < b
      [] OTHER -> a <= b

\* C25: JCMP on Integers compares R[arg2] against R[arg0]: with G, GE, L, LE it
\* continues at the next instruction iff R[arg2] >, >=, <, <= R[arg0] and adds
\* arg1 to ip otherwise, and writes no register; a non-Integer operand or a
\* selector outside G, GE, L, LE, _3W is a RuntimeError.
C25_Jcmp ==
    last.op = "JCMP" =>
        LET a == LastR(last.instr.arg2)
            b == LastR(last.instr.arg0)
            op == last.instr.arg3
        IN IF a.t = "Integer" /\ b.t = "Integer"
           THEN /\ op \in {CompOp.G, CompOp.GE, CompOp.L, CompOp.LE} =>
                     /\ pc = "exec"
                     /\ stack = last.stack
                     /\ Depth = Len(last.callstack)
                     /\ ci.ip = IF Holds(op, a.i, b.i) THEN LastCi.ip + 1
                                ELSE LastCi.ip + 1 + last.instr.arg1
                /\ op \notin {CompOp.G, CompOp.GE, CompOp.L, CompOp.LE, CompOp._3W} =>
                     ExecErr
           ELSE ExecErr

\* 6 <= 5 does not hold: the JCMP adds its offset
C25_Witness ==
    /\ last.op = "JCMP"
    /\ last.instr.arg3 = CompOp.LE
    /\ LastR(last.instr.arg2) = Integer(6)
    /\ LastR(last.instr.arg0) = Integer(5)
    /\ last.instr.arg1 = 2
    /\ ci.ip = LastCi.ip + 3
    /\ pc = "exec"

\* C26: JCMP with the selector _3W on Integers does not fail and leaves the
\* three-way result (-1, 0, 1 for R[arg2] <, =, > R[arg0]) in a register.
C26_ThreeWayStored ==
    (/\ last.op = "JCMP"
     /\ last.instr.arg3 = CompOp._3W
     /\ LastR(last.instr.arg2).t = "Integer"
     /\ LastR(last.instr.arg0).t = "Integer")
    => /\ pc = "exec"
       /\ \E j \in DOMAIN stack :
             stack[j] = Integer(IF LastR(last.instr.arg2).i < LastR(last.instr.arg0).i
                                THEN -1
                                ELSE IF LastR(last.instr.arg2).i = LastR(last.instr.arg0).i
                                THEN 0 ELSE 1)

\* C27, one execution: FOREACH at position i of an array (i = 0 for a Null
\* index register) writes R[arg2] = Integer(i), R[arg2+1] = element i,
\* R[arg2+2] = Integer(i+1) and skips the instruction that follows it; at the end
\* of the array it writes nothing and adds arg1 to ip; a container that is
\* no Array or an index that is neither Null nor Integer is a RuntimeError.
C27_ForeachStep ==
    last.op = "FOREACH" =>
        LET c == LastR(last.instr.arg0)
            ix == LastR(last.instr.arg2 + 2)
            i == IF ix.t = "Null" THEN 0 ELSE ix.i
            key == last.instr.arg2
        IN IF ix.t \notin {"Null", "Integer"} \/ c.t # "Array" THEN ExecErr
           ELSE /\ pc = "exec"
                /\ IF i >= 0 /\ i < Len(last.heap[c.i].array)
                   THEN /\ value(stack, frame, key) = Integer(i)
                        /\ value(stack, frame, key + 1) = last.heap[c.i].array[i + 1]
                        /\ value(stack, frame, key + 2) = Integer(i + 1)
                        /\ ci.ip = LastCi.ip + 2
                   ELSE /\ stack = last.stack
                        /\ ci.ip = LastCi.ip + 1 + last.instr.arg1

\* C27: FOREACH executed repeatedly on an array of n elements, index register
\* Null at first, yields the elements 0 .. n-1 in order as stated for one
\* execution and leaves at the (n+1)-th; the loop that sums [10, 20, 30]
\* returns Integer 60.
C27_Foreach ==
    /\ C27_ForeachStep
    /\ (protos = ProgForeachLoop(3) /\ FreshRunEnded) =>
          (ExecOk /\ result.v = Integer(60))

\* C28: after TAILCALL with arg2 = off and arg3 = n every R[i], i in [0, n),
\* holds what R[off+i] held before, also when [0, n) and [off, off+n) overlap;
\* the call-info's closure is the former R[arg1] and its ip is 0.
C28_TailcallArgs ==
    (last.op = "TAILCALL" /\ pc # "abort") =>
        /\ \A i \in 0 .. (last.instr.arg3 - 1) :
              value(stack, frame, i) = LastR(last.instr.arg2 + i)
        /\ Depth = Len(last.callstack)
        /\ ci.closure = LastR(last.instr.arg1)
        /\ ci.ip = 0
        /\ frame = last.frame

\* three arguments moved down by one register: the ranges overlap
C28_Witness ==
    /\ last.op = "TAILCALL"
    /\ last.instr.arg2 = 1
    /\ last.instr.arg3 = 3
    /\ pc = "exec"
    /\ <<value(stack, frame, 0), value(stack, frame, 1), value(stack, frame, 2)>>
           = <<Integer(21), Integer(22), Integer(23)>>
    /\ ci.closure = Closure(2)
    /\ ci.ip = 0

\* the container a NEWSLOT or APPENDARRAY that was the last step worked on
LastTarget ==
    IF last.op = "NEWSLOT" THEN LastR(last.instr.arg1) ELSE LastR(last.instr.arg0)

\* C29: CLONE of a Table or Array puts in R[arg0] a fresh container with the
\* entries of the source (container-valued entries are the same references) and
\* leaves every other container as it was; a NEWSLOT or APPENDARRAY changes the
\* container it is applied to and no other; CLONE of an Integer, Bool, Float or
\* String yields the value; CLONE of anything else is a RuntimeError.
C29_Clone ==
    /\ last.op = "CLONE" =>
          LET src == LastR(last.instr.arg1)
              dst == value(stack, frame, last.instr.arg0)
          IN CASE src.t \in {"Table", "Array"} ->
                    /\ pc = "exec"
                    /\ dst.t = src.t
                    /\ dst.i \in (DOMAIN heap) \ (DOMAIN last.heap)
                    /\ heap[dst.i] = last.heap[src.i]
                    /\ \A r \in DOMAIN last.heap : heap[r] = last.heap[r]
               [] src.t \in {"Integer", "Bool", "Float", "String"} ->
                    /\ pc = "exec"
                    /\ dst = src
                    /\ heap = last.heap
               [] OTHER -> ExecErr /\ stack = last.stack /\ heap = last.heap
    /\ last.op \in {"NEWSLOT", "APPENDARRAY"} =>
          \A r \in DOMAIN last.heap :
              (LastTarget.t \in {"Table", "Array"} /\ r = LastTarget.i)
                  \/ heap[r] = last.heap[r]

\* an array and its clone after an element was appended to each and an entry
\* added to the table both hold as their first element
C29_Witness ==
    /\ protos = ProgClone("array")
    /\ last.op = "NEWSLOT"
    /\ pc = "exec"
    /\ value(stack, frame, 1).t = "Array"
    /\ value(stack, frame, 3).t = "Array"
    /\ value(stack, frame, 1) # value(stack, frame, 3)
    /\ heap[value(stack, frame, 1).i].array = <<value(stack, frame, 2), Integer(5)>>
    /\ heap[value(stack, frame, 3).i].array = <<value(stack, frame, 2), Integer(6)>>
    /\ heap[value(stack, frame, 2).i].map # {}

\* the operand an EQ that was the last step compared R[arg2] with
LastEqOperand ==
    IF last.instr.arg3 # 0 THEN LastFunc.literals[last.instr.arg1 + 1]
    ELSE LastR(last.instr.arg1)

\* C30: EQ compares R[arg2] with R[arg1] when arg3 = 0 and with literals[arg1]
\* otherwise; for two Integers or two Strings it stores Bool(equal) in R[arg0];
\* for every other pair it fails with a RuntimeError and writes no register.
C30_Eq ==
    last.op = "EQ" =>
        LET op1 == LastR(last.instr.arg2)
            op2 == LastEqOperand
        IN CASE op1.t = "Integer" /\ op2.t = "Integer" ->
                  pc = "exec" /\ value(stack, frame, last.instr.arg0) = Bool(op1.i = op2.i)
             [] op1.t = "String" /\ op2.t = "String" ->
                  pc = "exec" /\ value(stack, frame, last.instr.arg0) = Bool(op1.s = op2.s)
             [] OTHER -> ExecErr /\ stack = last.stack

\* R[arg2] and R[arg1] hold "x" and the literal is "y"
C30_Witness ==
    /\ last.op = "EQ"
    /\ last.instr.arg3 # 0
    /\ LastR(last.instr.arg2) = String("x")
    /\ LastR(last.instr.arg1) = String("x")
    /\ LastEqOperand = String("y")
    /\ value(stack, frame, last.instr.arg0) = Bool(FALSE)
    /\ pc = "exec"

(***************************************************************************)
(* Table keys, calls, frames and aborts (Spec, SpecE, SpecLoader).         *)
(***************************************************************************)
\* C31: every key of every table, the root table included, is an Integer, a
\* Bool or a String; a NEWSLOT with a key of another variant inserts nothing.
C31_KeysHashable ==
    /\ \A r \in DOMAIN heap :
          heap[r].kind = "Table" =>
              \A e \in heap[r].map : e.k.t \in {"Integer", "Bool", "String"}
    /\ (last.op = "NEWSLOT" /\ LastR(last.instr.arg2).t \notin {"Integer", "Bool", "String"})
          => heap = last.heap

\* a NEWSLOT on the root table with a Null key, after the embedder registered
\* a native: the table holds the native alone
C31_Witness ==
    /\ last.op = "NEWSLOT"
    /\ LastR(last.instr.arg1) = Table(RootRef)
    /\ LastR(last.instr.arg2) = Null
    /\ LastR(last.instr.arg3) = Integer(7)
    /\ heap[RootRef].map # {}
    /\ heap = last.heap

\* C32: a CALL of a register that holds neither a Closure nor a NativeClosure
\* makes execute() return the RuntimeError "expected Closure or NativeClosure";
\* no call-info is pushed and the stack frame is as before.
C32_CallNotCallable ==
    (last.op = "CALL" /\ LastR(last.instr.arg1).t \notin {"Closure", "NativeClosure"}) =>
        /\ ExecErr
        /\ result.v = String("expected Closure or NativeClosure")
        /\ Depth = Len(last.callstack)
        /\ frame = last.frame
        /\ stack = last.stack

C32_Witness ==
    /\ last.op = "CALL"
    /\ LastR(last.instr.arg1).t = "Table"
    /\ ExecErr
    /\ Depth = 1
    /\ frame = last.frame

\* C33: the loader does not abort on the type tag of an object: the NULL tag
\* is read as the Null value, and a tag it does not handle, known or unknown,
\* is reported as a RuntimeError.
C33_ObjectTypeTags ==
    (Loaded /\ ld.made.kind = "type") =>
        /\ ld.result.kind # "panic"
        /\ ld.made.v # ObjectType.Null => ld.result.kind = "err"

\* C34: as long as the embedder made one call() (one call-info is marked root;
\* a root call-info is never popped), the first call-info is the root and no
\* other is, so a RETURN of a non-root frame has a call-info beneath it and
\* execute() never returns "callstack empty" from the return path.
C34_RootFirst ==
    /\ (Depth > 0 /\ RootCount <= 1) =>
            \A k \in 1 .. Depth : callstack[k].root <=> (k = 1)
    /\ (/\ last.op = "RETURN"
        /\ ~LastCi.root
        /\ Cardinality({k \in 1 .. Len(last.callstack) : last.callstack[k].root}) <= 1)
            => /\ Len(last.callstack) >= 2
               /\ last.callstack[1].root
               /\ ~(ExecErr /\ result.v = String("callstack empty"))

C34_Witness ==
    /\ last.op = "RETURN"
    /\ ~LastCi.root
    /\ Len(last.callstack) = 3
    /\ Depth = 2
    /\ callstack[1].root /\ ~callstack[2].root
    /\ pc = "exec"

\* the slots the last step changed
C35_Written ==
    {j \in (DOMAIN stack) \cup (DOMAIN last.stack) : SlotGet(stack, j) # SlotGet(last.stack, j)}

\* C35: while a closure entered by a CALL with stack offset s = arg2 has not
\* returned, no instruction changes a register of the caller below s, but the
\* RETURN of that closure, which writes the return value to the CALL's target
\* register of the caller and changes nothing else.
C35_CallerRegsKept ==
    /\ last.pc = "exec" =>
          \A n \in 1 .. Len(last.pending) :
             LET p == last.pending[n]
             IN \A j \in C35_Written :
                   (j >= p.frame.base /\ j < p.frame.base + p.instr.arg2) =>
                       /\ last.op = "RETURN" /\ ~LastCi.root
                       /\ n = Len(last.pending)
                       /\ p.instr.arg0 # NoTarget
                       /\ j = p.frame.base + p.instr.arg0
                       /\ SlotGet(stack, j) = LastRetval
    /\ (last.op = "RETURN" /\ ~LastCi.root /\ last.pending # <<>>) =>
          \A j \in C35_Written :
              j = last.pending[Len(last.pending)].frame.base
                    + last.pending[Len(last.pending)].instr.arg0

\* a nested callee has written a register of its own while two callers wait
C35_Witness ==
    /\ last.pc = "exec"
    /\ Len(last.pending) = 2
    /\ last.pending[1].instr.arg2 > 0
    /\ last.op \in {"LOADINT", "MOVE", "LOAD"}
    /\ C35_Written # {}

\* the RETURN of a callee has written its caller's target register below s
C35_WitnessReturn ==
    /\ last.op = "RETURN" /\ ~LastCi.root
    /\ last.pending # <<>>
    /\ C35_Written # {}
    /\ last.pending[Len(last.pending)].instr.arg0 < last.pending[Len(last.pending)].instr.arg2

\* C36: TAILCALL leaves the stack frame {base, top} as it was, whatever the
\* stacksize of the prototype it enters.
C36_TailcallFrame == last.op = "TAILCALL" => frame = last.frame

C36_Witness ==
    /\ last.op = "TAILCALL"
    /\ pc = "exec"
    /\ protos[ci.closure.i].stacksize > last.frame.top - last.frame.base
    /\ LastFunc.stacksize = last.frame.top - last.frame.base
    /\ frame = last.frame

\* C37: call(num_params) with a value at top - (num_params + 1) that is no
\* Closure, a NativeClosure included, returns a RuntimeError and leaves the
\* frame, the stack and the call-info sequence as they were.
C37_CallNotClosure ==
    (/\ last.op = "call"
     /\ InRange(UpSlot(last.frame, -(last.instr.arg1 + 1)))
     /\ SlotGet(last.stack, UpSlot(last.frame, -(last.instr.arg1 + 1))).t # "Closure") =>
        /\ pc = "embed" /\ result.api = "call" /\ result.kind = "err"
        /\ frame = last.frame
        /\ stack = last.stack
        /\ callstack = last.callstack

C37_Witness ==
    /\ last.op = "call"
    /\ last.instr.arg1 = 1
    /\ SlotGet(last.stack, UpSlot(last.frame, -2)).t = "NativeClosure"
    /\ SlotGet(last.stack, UpSlot(last.frame, -1)).t = "Closure"
    /\ result.api = "call" /\ result.kind = "err"
    /\ callstack = <<>>
    /\ frame = last.frame

\* C38: TAILCALL on an R[arg1] that is no Closure (a NativeClosure, say) makes
\* execute() return a RuntimeError after the exchange of the arguments and the
\* replacement of the closure: the call-info holds the value as its closure,
\* its ip is 0 and R[i], R[arg2 + i] are exchanged for i < arg3.
C38_TailcallNotClosure ==
    (/\ last.op = "TAILCALL" /\ pc # "abort"
     /\ LastR(last.instr.arg1).t # "Closure") =>
        /\ ExecErr
        /\ Depth = Len(last.callstack)
        /\ ci.closure = LastR(last.instr.arg1)
        /\ ci.ip = 0
        /\ \A i \in 0 .. (last.instr.arg3 - 1) :
              /\ value(stack, frame, i) = LastR(last.instr.arg2 + i)
              /\ last.instr.arg2 >= last.instr.arg3 =>
                    value(stack, frame, last.instr.arg2 + i) = LastR(i)

C38_Witness ==
    /\ last.op = "TAILCALL"
    /\ LastR(last.instr.arg1).t = "NativeClosure"
    /\ ExecErr
    /\ ci.closure.t = "NativeClosure" /\ ci.ip = 0
    /\ value(stack, frame, 0) = Integer(8)
    /\ value(stack, frame, 2) = LastR(0)
    /\ LastR(0) # Integer(8)

\* the ip of the running call-info was outside its function's instructions
\* before the last step
C39_LastIpOutside ==
    /\ last.pc = "exec"
    /\ ~(LastCi.ip >= 0 /\ LastCi.ip < Len(LastFunc.instructions))

\* C39: execute() fetches without a bounds check: with the ip outside
\* [0, #instructions), after the last instruction of a function without a
\* RETURN, after a jump out of range or in a second execute() after the root's
\* closing RETURN, the VM aborts and no RuntimeError is returned.
C39_FetchAborts ==
    C39_LastIpOutside =>
        /\ pc = "abort"
        /\ result = ApiResult("execute", Panic)
        /\ last.op = "fetch"
        /\ callstack = last.callstack /\ stack = last.stack /\ frame = last.frame

\* a second execute(), with no call() before it, after the RETURN that closes
\* the root frame's function
C39_Witness ==
    /\ C39_LastIpOutside
    /\ pc = "abort"
    /\ LastCi.root
    /\ ~entry.fresh
    /\ LastFunc.instructions[LastCi.ip].op = "RETURN"
    /\ op_count["RETURN"] > 0
    /\ LastCi.ip = Len(LastFunc.instructions)

\* a jump beyond the last instruction
C39_WitnessJump ==
    /\ C39_LastIpOutside
    /\ pc = "abort"
    /\ op_count["JMP"] > 0
    /\ LastCi.ip > Len(LastFunc.instructions)

\* a function without RETURN ran past its last instruction
C39_WitnessNoReturn ==
    /\ C39_LastIpOutside
    /\ pc = "abort"
    /\ protos = ProgNoReturn
    /\ op_count["RETURN"] = 0

\* C40: DIV and MOD on two Integers with the divisor R[arg1] = Integer(0) give
\* no RuntimeError: the VM aborts, and no register is written.
C40_ZeroDivisorAborts ==
    (/\ last.op \in {"DIV", "MOD"}
     /\ LastR(last.instr.arg2).t = "Integer"
     /\ LastR(last.instr.arg1) = Integer(0)) =>
        /\ pc = "abort"
        /\ result = ApiResult("execute", Panic)
        /\ stack = last.stack

C40_Witness ==
    /\ last.op = "MOD"
    /\ LastR(last.instr.arg2) = Integer(7)
    /\ LastR(last.instr.arg1) = Integer(0)
    /\ pc = "abort"
    /\ result.kind = "panic"

\* a division by a divisor other than zero goes on
C40_WitnessDiv ==
    /\ last.op = "DIV"
    /\ LastR(last.instr.arg2) = Integer(7)
    /\ LastR(last.instr.arg1) = Integer(2)
    /\ pc = "exec"
    /\ value(stack, frame, last.instr.arg0) = Integer(3)

====
